---- MODULE Spec2Model ----
(***************************************************************************)
(* A model of gofumpt's rule engine (src/format/format.go): the line table *)
(* the rules rewrite through, and the rules of applyPre / applyPost.       *)
(*                                                                         *)
(* Positions are byte offsets into the source buffer (token.Pos minus the  *)
(* file base); NoPos is the invalid position.  The line table is the       *)
(* sequence of line-start offsets of token.File, first entry 0.            *)
(***************************************************************************)
EXTENDS Integers, Sequences, FiniteSets, TLC

VARIABLES
    lines,      \* token.File.lines: the line-start offsets
    size,       \* token.File.size: the size of the source buffer
    ast,        \* the syntax (sub)tree the rules of the specification rewrite
    comments,   \* ast.File.Comments: comment groups, sorted by position
    opts,       \* Options (LangVersion, ExtraRules) and fumpter.blockLevel
    orig,       \* the caller's input, as handed to File: [ast, lines]
    pc,         \* the position of the traversal: the last step taken
    aborted     \* TRUE once a rule has panicked: the invocation is over

vars == <<lines, size, ast, comments, opts, orig, pc, aborted>>

NoPos == -1

Range(s) == {s[i] : i \in 1..Len(s)}

MaxOf(S) == CHOOSE x \in S : \A y \in S : y <= x

MinOf(S) == CHOOSE x \in S : \A y \in S : x <= y

RECURSIVE SeqSum(_)
SeqSum(s) == IF s = <<>> THEN 0 ELSE Head(s) + SeqSum(Tail(s))

RemoveAt(s, i) == SubSeq(s, 1, i - 1) \o SubSeq(s, i + 1, Len(s))

(***************************************************************************)
(* token.File as the rules use it                                          *)
(***************************************************************************)

\* token.File.Line: searchInts(lines, offset) + 1, the largest index whose
\* line start is <= offset (0-based index + 1 = the 1-based index here).
Line(ls, p) == MaxOf({0} \cup {i \in 1..Len(ls) : ls[i] <= p})

LineCount(ls) == Len(ls)

\* token.File.LineStart(line), as an offset.
LineStart(ls, line) == ls[line]

\* token.File.SetLines: refuses a table that is not strictly increasing or
\* that has a line start at or past the file size.
SetLinesOk(ls, sz) ==
    \A i \in 1..Len(ls) : (i > 1 => ls[i] > ls[i - 1]) /\ ls[i] < sz

\* A table with the outcome of the calls made on it: ok is FALSE once a call
\* has panicked.
Tab(ls, ok) == [lines |-> ls, ok |-> ok]

\* token.File.MergeLine(line): panics on line < 1 and on the last line, else
\* deletes the line start of line+1.
MergeLine(t, line) ==
    IF ~t.ok THEN t
    ELSE IF line < 1 \/ line >= Len(t.lines) THEN Tab(t.lines, FALSE)
    ELSE Tab(RemoveAt(t.lines, line + 1), TRUE)

(***************************************************************************)
(* fumpter.addNewline, removeLines, removeLinesBetween                     *)
(***************************************************************************)

\* The loop of addNewline over the old table: i is the next index, offset the
\* offset still to insert (-1 once inserted), acc the new table so far.
\* The result is <<found, acc, offset>>: found when offset = cur was met.
RECURSIVE AddNewlineLoop(_, _, _, _)
AddNewlineLoop(ls, i, offset, acc) ==
    IF i > Len(ls) THEN <<FALSE, acc, offset>>
    ELSE IF offset = ls[i] THEN <<TRUE, acc, offset>>
    ELSE IF offset >= 0 /\ offset < ls[i]
         THEN AddNewlineLoop(ls, i + 1, -1, acc \o <<offset, ls[i]>>)
         ELSE AddNewlineLoop(ls, i + 1, offset, Append(acc, ls[i]))

\* A slip addNewline could have: no early return on an existing line start,
\* and the new table written without SetLines' validation.
AddNewlineNoDupCheck(t, sz, at) ==
    IF ~t.ok THEN t
    ELSE LET before == {i \in 1..Len(t.lines) : t.lines[i] <= at}
             k == Cardinality(before)
         IN Tab(SubSeq(t.lines, 1, k) \o <<at>> \o SubSeq(t.lines, k + 1, Len(t.lines)), TRUE)

\* fumpter.addNewline(at).
AddNewline(t, sz, at) ==
    IF ~t.ok THEN t
    ELSE LET r == AddNewlineLoop(t.lines, 1, at, <<>>)
             new == IF r[3] >= 0 THEN Append(r[2], r[3]) ELSE r[2]
         IN IF r[1] THEN t
            ELSE IF SetLinesOk(new, sz) THEN Tab(new, TRUE)
            ELSE Tab(t.lines, FALSE)

\* fumpter.removeLines(fromLine, toLine).
RECURSIVE RemoveLines(_, _, _)
RemoveLines(t, fromLine, toLine) ==
    IF ~t.ok \/ ~(fromLine < toLine) THEN t
    ELSE RemoveLines(MergeLine(t, fromLine), fromLine, toLine - 1)

\* fumpter.removeLinesBetween(from, to).
RemoveLinesBetween(t, from, to) ==
    IF ~t.ok THEN t
    ELSE RemoveLines(t, Line(t.lines, from) + 1, Line(t.lines, to))

(***************************************************************************)
(* Specification SpecLines: the line table under arbitrary calls           *)
(***************************************************************************)

\* Bound: the size of the source buffer of SpecLines.
FileSize == 6

\* The line tables a parser can hand over for a buffer of sz bytes: 0, and
\* any set of later offsets (one after each newline byte).
RECURSIVE SortedSeq(_)
SortedSeq(S) == IF S = {} THEN <<>> ELSE <<MinOf(S)>> \o SortedSeq(S \ {MinOf(S)})

ParsedTables(sz) == {SortedSeq({0} \cup S) : S \in SUBSET (1..(sz - 1))}

InitLines ==
    /\ size = FileSize
    /\ lines \in ParsedTables(FileSize)
    /\ ast = <<>>
    /\ comments = <<>>
    /\ opts = <<>>
    /\ orig = <<>>
    /\ pc = "start"
    /\ aborted = FALSE

Apply(t, step) ==
    /\ lines' = t.lines
    /\ aborted' = ~t.ok
    /\ pc' = step

AddNewlineAt(at) ==
    /\ ~aborted
    /\ Apply(AddNewline(Tab(lines, TRUE), size, at), "addNewline")
    /\ UNCHANGED <<size, ast, comments, opts, orig>>

CallAddNewline == \E at \in 0..size : AddNewlineAt(at)

CallRemoveLines ==
    /\ ~aborted
    /\ \E fromLine \in 0..(size + 1), toLine \in 0..(size + 1) :
          Apply(RemoveLines(Tab(lines, TRUE), fromLine, toLine), "removeLines")
    /\ UNCHANGED <<size, ast, comments, opts, orig>>

CallRemoveLinesBetween ==
    /\ ~aborted
    /\ \E from \in 0..size, to \in 0..size :
          Apply(RemoveLinesBetween(Tab(lines, TRUE), from, to), "removeLinesBetween")
    /\ UNCHANGED <<size, ast, comments, opts, orig>>

NextLines == CallAddNewline \/ CallRemoveLines \/ CallRemoveLinesBetween

SpecLines == InitLines /\ [][NextLines]_vars

StrictlyIncreasing(ls) == \A i \in 2..Len(ls) : ls[i - 1] < ls[i]

LineTableOk ==
    /\ Len(lines) >= 1
    /\ StrictlyIncreasing(lines)
    /\ \A p \in 0..size : Line(lines, p) \in 1..LineCount(lines)
    /\ \A p \in 0..size, q \in 0..size : p <= q => Line(lines, p) <= Line(lines, q)

\* C2: after any sequence of addNewline / removeLines / removeLinesBetween
\* calls the line starts are strictly increasing without duplicates, every
\* position of the file maps to a line between 1 and the line count, line
\* numbers are non-decreasing in position, and addNewline at an offset that is
\* already a line start leaves the table as it was (and does not panic).
C2_LineTableInvariant ==
    /\ [](LineTableOk)
    /\ [][\A at \in 0..size :
            (at \in Range(lines) /\ AddNewlineAt(at)) => (lines' = lines /\ ~aborted')]_vars

\* C2 witness: an insert or a merge has changed a parsed table.
C2_Witness ==
    /\ pc \in {"addNewline", "removeLinesBetween"}
    /\ ~aborted
    /\ Len(lines) >= 3

(***************************************************************************)
(* Options.LangVersion and golang.org/x/mod/semver as File uses them.      *)
(* A version string is the sequence of its tokens: "v", ".", "-pre" (a     *)
(* prerelease suffix) and numbers (maximal runs of digits, e.g. "13").      *)
(***************************************************************************)

NumTokens == {"0", "1", "2", "12", "13", "14"}

IsNum(x) == x \in NumTokens

\* strconv on a run of digits.
NumVal(x) ==
    CASE x = "0" -> 0 [] x = "1" -> 1 [] x = "2" -> 2
      [] x = "12" -> 12 [] x = "13" -> 13 [] x = "14" -> 14

\* semver's parse: v MAJOR [ . MINOR [ . PATCH [ -PRERELEASE ] ] ]; the result
\* is <<ok, major, minor, patch, prerelease>>.
SemverParse(v) ==
    LET n == Len(v)
        bad == <<FALSE, 0, 0, 0, FALSE>>
    IN  IF n < 2 \/ v[1] # "v" \/ ~IsNum(v[2]) THEN bad
        ELSE IF n = 2 THEN <<TRUE, NumVal(v[2]), 0, 0, FALSE>>
        ELSE IF n < 4 \/ v[3] # "." \/ ~IsNum(v[4]) THEN bad
        ELSE IF n = 4 THEN <<TRUE, NumVal(v[2]), NumVal(v[4]), 0, FALSE>>
        ELSE IF n < 6 \/ v[5] # "." \/ ~IsNum(v[6]) THEN bad
        ELSE IF n = 6 THEN <<TRUE, NumVal(v[2]), NumVal(v[4]), NumVal(v[6]), FALSE>>
        ELSE IF n = 7 /\ v[7] = "-pre" THEN <<TRUE, NumVal(v[2]), NumVal(v[4]), NumVal(v[6]), TRUE>>
        ELSE bad

SemverIsValid(v) == SemverParse(v)[1]

CmpInt(a, b) == IF a < b THEN -1 ELSE IF a > b THEN 1 ELSE 0

\* semver.Compare on two valid versions: major, minor, patch, then a
\* prerelease sorts before the release.
SemverCompare(v, w) ==
    LET a == SemverParse(v)
        b == SemverParse(w)
    IN  IF a[2] # b[2] THEN CmpInt(a[2], b[2])
        ELSE IF a[3] # b[3] THEN CmpInt(a[3], b[3])
        ELSE IF a[4] # b[4] THEN CmpInt(a[4], b[4])
        ELSE IF a[5] = b[5] THEN 0
        ELSE IF a[5] THEN -1 ELSE 1

\* File, lines 69-73: the default and the "v" prefix.
NormalizeLangVersion(v) ==
    IF v = <<>> THEN <<"v", "1">>
    ELSE IF v[1] # "v" THEN <<"v">> \o v
    ELSE v

V113 == <<"v", "1", ".", "13">>

\* A slip the gate could have: strictly newer than 1.13.
OctalGateStrict(v) == SemverCompare(v, V113) > 0

\* applyPre, *ast.BasicLit, line 549: the version gate.
OctalGate(v) == SemverCompare(v, V113) >= 0

(***************************************************************************)
(* Literals: the text of a BasicLit is the sequence of its characters.     *)
(***************************************************************************)

OctDigits == {"0", "1", "7"}
DecDigits == {"0", "1", "7", "9"}
LitChars == DecDigits \cup {"_", "o", "x", "."}

\* rxOctalInteger, \A0[0-7_]+\z.
RxOctalInteger(text) ==
    /\ Len(text) >= 2
    /\ text[1] = "0"
    /\ \A i \in 2..Len(text) : text[i] \in OctDigits \cup {"_"}

\* applyPre, *ast.BasicLit: the new BasicLit under LangVersion v (normalized).
ApplyPreBasicLit(v, lit) ==
    IF OctalGate(v) /\ lit.kind = "INT" /\ RxOctalInteger(lit.value)
    THEN [lit EXCEPT !.value = <<"0", "o">> \o Tail(lit.value)]
    ELSE lit

\* The Go grammar of the literals the parser can hand over.
\* digits = digit { [ "_" ] digit }, optionally led by one "_".
IsDigits(s, D) ==
    /\ Len(s) >= 1
    /\ s[1] \in D
    /\ s[Len(s)] \in D
    /\ \A i \in 1..Len(s) : s[i] \in D \cup {"_"}
    /\ \A i \in 1..(Len(s) - 1) : ~(s[i] = "_" /\ s[i + 1] = "_")

IsUDigits(s, D) == IsDigits(s, D) \/ (Len(s) >= 2 /\ s[1] = "_" /\ IsDigits(Tail(s), D))

IsIntLit(t) ==
    \/ t = <<"0">>
    \/ t[1] \in DecDigits \ {"0"} /\ (Len(t) = 1 \/ IsUDigits(Tail(t), DecDigits))
    \/ Len(t) >= 2 /\ t[1] = "0" /\ IsUDigits(Tail(t), OctDigits)
    \/ Len(t) >= 3 /\ t[1] = "0" /\ t[2] = "o" /\ IsUDigits(SubSeq(t, 3, Len(t)), OctDigits)
    \/ Len(t) >= 3 /\ t[1] = "0" /\ t[2] = "x" /\ IsUDigits(SubSeq(t, 3, Len(t)), DecDigits)

IsFloatLit(t) ==
    /\ Cardinality({i \in 1..Len(t) : t[i] = "."}) = 1
    /\ \A i \in 1..Len(t) : t[i] \in DecDigits \cup {"."}
    /\ Len(t) >= 2

DigitVal(c) == CASE c = "0" -> 0 [] c = "1" -> 1 [] c = "7" -> 7 [] c = "9" -> 9

RECURSIVE DigitsValue(_, _, _)
DigitsValue(s, base, acc) ==
    IF s = <<>> THEN acc
    ELSE IF Head(s) = "_" THEN DigitsValue(Tail(s), base, acc)
    ELSE DigitsValue(Tail(s), base, acc * base + DigitVal(Head(s)))

\* The value the Go language gives an integer literal.
IntLitValue(t) ==
    IF Len(t) >= 2 /\ t[1] = "0" /\ t[2] = "o" THEN DigitsValue(SubSeq(t, 3, Len(t)), 8, 0)
    ELSE IF Len(t) >= 2 /\ t[1] = "0" /\ t[2] = "x" THEN DigitsValue(SubSeq(t, 3, Len(t)), 16, 0)
    ELSE IF Len(t) >= 2 /\ t[1] = "0" THEN DigitsValue(Tail(t), 8, 0)
    ELSE DigitsValue(t, 10, 0)

(***************************************************************************)
(* Specification SpecLit: File on a file holding one basic literal         *)
(***************************************************************************)

\* Bound: the longest literal text.
MaxLitLen == 3

SeqsUpTo(S, n) == UNION {[1..k -> S] : k \in 1..n}

Literals(max) ==
    {[kind |-> "INT", value |-> t] : t \in {u \in SeqsUpTo(LitChars, max) : IsIntLit(u)}}
    \cup {[kind |-> "FLOAT", value |-> t] : t \in {u \in SeqsUpTo(LitChars, max) : IsFloatLit(u)}}

Majors == {"0", "1", "2"}
Minors == {"12", "13", "14"}
Patches == {"0", "1"}

LangVersions ==
    LET bodies == {<<a>> : a \in Majors}
                  \cup {<<a, ".", b>> : a \in Majors, b \in Minors}
                  \cup {<<a, ".", b, ".", c>> : a \in Majors, b \in Minors, c \in Patches}
    IN  {<<>>, <<"v">>}
        \cup {p \o b \o s : p \in {<<>>, <<"v">>}, b \in bodies, s \in {<<>>, <<"-pre">>}}

InitLit ==
    /\ size = 0
    /\ lines = <<0>>
    /\ ast \in Literals(MaxLitLen)
    /\ comments = <<>>
    /\ opts \in {[LangVersion |-> v] : v \in LangVersions}
    /\ orig = [ast |-> ast, opts |-> opts]
    /\ pc = "start"
    /\ aborted = FALSE

\* File, lines 69-84: the options are normalized and validated.
NewFumpter ==
    /\ pc = "start"
    /\ LET v == NormalizeLangVersion(opts.LangVersion)
       IN  /\ opts' = [opts EXCEPT !.LangVersion = v]
           /\ aborted' = ~SemverIsValid(v)
           /\ pc' = IF SemverIsValid(v) THEN "fumpter" ELSE "panic"
    /\ UNCHANGED <<lines, size, ast, comments, orig>>

\* The traversal reaches the literal: applyPre, *ast.BasicLit.
VisitBasicLit ==
    /\ pc = "fumpter"
    /\ ast' = ApplyPreBasicLit(opts.LangVersion, ast)
    /\ pc' = "done"
    /\ UNCHANGED <<lines, size, comments, opts, orig, aborted>>

NextLit == NewFumpter \/ VisitBasicLit

SpecLit == InitLit /\ [][NextLit]_vars

\* "At least 1.13", read off the configured string: the Go version
\* major.minor[.patch] with a missing minor or patch as 0 and an empty string
\* as 1.0; a prerelease of 1.13.0 is older than 1.13.
AtLeast113(v) ==
    LET w == IF v # <<>> /\ v[1] = "v" THEN Tail(v) ELSE v
        major == IF Len(w) >= 1 THEN NumVal(w[1]) ELSE 1
        minor == IF Len(w) >= 3 THEN NumVal(w[3]) ELSE 0
        patch == IF Len(w) >= 5 THEN NumVal(w[5]) ELSE 0
        pre == Len(w) >= 6
    IN  \/ major > 1
        \/ major = 1 /\ minor > 13
        \/ major = 1 /\ minor = 13 /\ (patch > 0 \/ ~pre)

LegacyOctal(t) ==
    Len(t) >= 2 /\ t[1] = "0" /\ \A i \in 2..Len(t) : t[i] \in {"0", "1", "7", "_"}

\* C5: a legacy octal integer literal (0 followed by octal digits and
\* underscores) becomes "0o" + the text without its leading 0, with the same
\* numeric value and still a valid literal, when LangVersion is at least 1.13;
\* below 1.13 or unset it is unchanged; any other literal is never changed.
C5_OctalUnderVersionGate ==
    pc = "done" =>
        LET old == orig.ast
        IN  IF old.kind = "INT" /\ LegacyOctal(old.value) /\ AtLeast113(orig.opts.LangVersion)
            THEN /\ ast.kind = "INT"
                 /\ ast.value = <<"0", "o">> \o SubSeq(old.value, 2, Len(old.value))
                 /\ IsIntLit(ast.value)
                 /\ IntLitValue(ast.value) = IntLitValue(old.value)
            ELSE ast = old

\* C5 witness: a legacy octal literal rewritten under exactly version 1.13.
C5_Witness ==
    /\ pc = "done"
    /\ orig.opts.LangVersion = <<"1", ".", "13">>
    /\ orig.ast.value = <<"0", "1", "7">>
    /\ ast.value = <<"0", "o", "1", "7">>

(***************************************************************************)
(* The comment index: ast.File.Comments is a sequence of comment groups    *)
(* [list |-> comments], a comment being [pos, end, text], sorted by        *)
(* position.  The text of a comment is the sequence of its characters; a   *)
(* directive keyword (line, export, extern, sys, sysnb, nolint) is one     *)
(* element, a run of letters.                                              *)
(***************************************************************************)

GroupPos(g) == g.list[1].pos

GroupEnd(g) == g.list[Len(g.list)].end

NoComment == [pos |-> NoPos, end |-> NoPos, text |-> <<>>]

\* fumpter.commentsBetween(p1, p2): the groups starting in [p1, p2).
CommentsBetween(cs, p1, p2) ==
    SelectSeq(cs, LAMBDA g : GroupPos(g) >= p1 /\ GroupPos(g) < p2)

\* fumpter.inlineComment(pos): in the first group at or after pos, the first
\* comment on pos's line; NoComment when there is none.
InlineComment(cs, ls, pos) ==
    LET after == SelectSeq(cs, LAMBDA g : GroupPos(g) >= pos)
    IN  IF after = <<>> THEN NoComment
        ELSE LET same == SelectSeq(after[1].list, LAMBDA c : Line(ls, c.pos) = Line(ls, pos))
             IN  IF same = <<>> THEN NoComment ELSE same[1]

Keywords == {"line", "export", "extern", "sys", "sysnb", "nolint"}
Letters == {"a", "b"} \cup Keywords
Digits == {"1"}
Spaces == {" "}
WordChars == Letters \cup Digits \cup {"_"}

\* strings.TrimPrefix(text, "//").
TrimSlashes(text) ==
    IF Len(text) >= 2 /\ text[1] = "/" /\ text[2] = "/" THEN SubSeq(text, 3, Len(text)) ELSE text

\* The length of the longest prefix of s made of elements of S.
RECURSIVE PrefixLen(_, _)
PrefixLen(s, S) == IF s # <<>> /\ Head(s) \in S THEN 1 + PrefixLen(Tail(s), S) ELSE 0

\* rxCommentDirective on the body of a line comment:
\* ^([a-z-]+:[a-z]+|line\b|export\b|extern\b|sys(nb)?\b|nolint\b)
RxCommentDirective(body) ==
    LET k == PrefixLen(body, Letters \cup {"-"})
    IN  \/ k >= 1 /\ Len(body) >= k + 2 /\ body[k + 1] = ":" /\ body[k + 2] \in Letters
        \/ /\ body # <<>>
           /\ Head(body) \in Keywords
           /\ (Len(body) = 1 \/ body[2] \notin WordChars)

\* The first rune of the body is no letter, number or space (an empty body
\* decodes to RuneError, which is none of them).
LooksLikeCode(body) == body = <<>> \/ Head(body) \notin Letters \cup Digits \cup Spaces

\* A slip groupLoop could have: each comment judged by itself, the others of
\* its group not looked at.
FixGroupEach(g) ==
    [g EXCEPT !.list =
        [i \in 1..Len(g.list) |->
            LET c == g.list[i]
                body == TrimSlashes(c.text)
            IN  IF body = c.text \/ RxCommentDirective(body) \/ LooksLikeCode(body)
                   \/ Head(body) \in Spaces
                THEN c
                ELSE [c EXCEPT !.text = <<"/", "/", " ">> \o body, !.end = @ + 1]]]

\* applyPre, *ast.File, groupLoop: one comment group.  A comment's End() is
\* its position plus the length of its text, so it moves with the text.
FixGroup(g) ==
    IF \E i \in 1..Len(g.list) :
          LET body == TrimSlashes(g.list[i].text)
          IN  body = g.list[i].text \/ RxCommentDirective(body) \/ LooksLikeCode(body)
    THEN g
    ELSE [g EXCEPT !.list =
            [i \in 1..Len(g.list) |->
                LET c == g.list[i]
                    body == TrimSlashes(c.text)
                IN  IF body = <<>> \/ Head(body) \notin Spaces
                    THEN [c EXCEPT !.text = <<"/", "/", " ">> \o body, !.end = @ + 1]
                    ELSE c]]

FixComments(cs) == [i \in 1..Len(cs) |-> FixGroup(cs[i])]

(***************************************************************************)
(* Top-level declarations.  A declaration is                               *)
(*   [id, kind ("gen" / "func"), tok, doc, tokPos, lparen, rparen, specs,  *)
(*    funcEnd], a spec [name, val, pos, end]; val is "iota" or "lit" for a *)
(* value, "C" or "os" for an import path.                                  *)
(***************************************************************************)

DeclPos(d) == d.tokPos

\* ast.GenDecl.End: Rparen+1 when valid, else the end of the first spec.
DeclEnd(d) ==
    IF d.kind = "func" THEN d.funcEnd
    ELSE IF d.rparen # NoPos THEN d.rparen + 1
    ELSE d.specs[1].end

\* isCgoImport.
IsCgoImport(d) == d.tok = "import" /\ Len(d.specs) = 1 /\ d.specs[1].val = "C"

\* applyPre, *ast.File, the inner loop of the join: cont = decls[i] is merged
\* into start while it qualifies; the result is <<start, i>>.
RECURSIVE JoinInner(_, _, _, _, _, _)
JoinInner(decls, i, start, lastPos, ls, cs) ==
    IF i > Len(decls) THEN <<start, i>>
    ELSE LET cont == decls[i]
         IN  IF \/ cont.kind # "gen"
                \/ cont.tok # start.tok
                \/ cont.lparen # NoPos
                \/ Line(ls, lastPos) < Line(ls, DeclPos(cont)) - 1
                \/ IsCgoImport(cont)
             THEN <<start, i>>
             ELSE LET c == InlineComment(cs, ls, DeclEnd(cont))
                      joined == [start EXCEPT
                                   !.specs = @ \o cont.specs,
                                   !.rparen = IF c # NoComment THEN c.end ELSE DeclEnd(cont)]
                  IN  JoinInner(decls, i + 1, joined, DeclPos(cont), ls, cs)

\* applyPre, *ast.File, the outer loop of the join: newDecls.
RECURSIVE JoinDecls(_, _, _, _, _)
JoinDecls(decls, i, newDecls, ls, cs) ==
    IF i > Len(decls) THEN newDecls
    ELSE LET start == decls[i]
         IN  IF start.kind # "gen" \/ IsCgoImport(start) \/ start.doc
             THEN JoinDecls(decls, i + 1, Append(newDecls, start), ls, cs)
             ELSE LET r == JoinInner(decls, i + 1, start, DeclPos(start), ls, cs)
                  IN  JoinDecls(decls, r[2], Append(newDecls, r[1]), ls, cs)

\* applyPre, *ast.File, the loop that separates multiline declarations: the
\* line table after it.
RECURSIVE SeparateMultiline(_, _, _, _, _, _, _)
SeparateMultiline(decls, i, lastMulti, lastEnd, t, sz, cs) ==
    IF i > Len(decls) \/ ~t.ok THEN t
    ELSE LET decl == decls[i]
             between == CommentsBetween(cs, lastEnd, DeclPos(decl))
             pos == IF between # <<>> THEN GroupPos(between[1]) ELSE DeclPos(decl)
             multi == Line(t.lines, pos) < Line(t.lines, DeclEnd(decl))
             t2 == IF multi /\ lastMulti /\ Line(t.lines, lastEnd) + 1 = Line(t.lines, pos)
                   THEN AddNewline(t, sz, lastEnd)
                   ELSE t
         IN  SeparateMultiline(decls, i + 1, multi, DeclEnd(decl), t2, sz, cs)

\* applyPre, *ast.File: <<decls, table, comments>> after the three loops.
ApplyPreFile(decls, ls, sz, cs) ==
    LET newDecls == JoinDecls(decls, 1, <<>>, ls, cs)
        t == SeparateMultiline(newDecls, 1, FALSE, NoPos, Tab(ls, TRUE), sz, cs)
    IN  <<newDecls, t, FixComments(cs)>>

\* applyPre, *ast.GenDecl, lines 417-437: a parenthesised single var spec
\* loses its parentheses; the result is <<decl, table>>.
DropSingleVarParens(d, t, cs) ==
    IF d.tok = "var" /\ Len(d.specs) = 1 /\ d.lparen # NoPos /\ ~d.doc
    THEN LET specPos == d.specs[1].pos
             specEnd == d.specs[1].end
             moved == CommentsBetween(cs, d.tokPos, specPos) # <<>>
             t1 == IF moved THEN t
                   ELSE RemoveLines(t, Line(t.lines, d.tokPos), Line(t.lines, specPos))
             t2 == RemoveLines(t1, Line(t1.lines, specEnd), Line(t1.lines, d.rparen))
         IN  <<[d EXCEPT !.tokPos = IF moved THEN specPos ELSE @,
                         !.lparen = NoPos, !.rparen = NoPos], t2>>
    ELSE <<d, t>>

(***************************************************************************)
(* Specification SpecFile: File, twice, on a file of top-level             *)
(* declarations in canonical gofmt layout.                                 *)
(*                                                                         *)
(* The source is laid out line by line, every line ending in its newline   *)
(* byte and holding no trailing space:                                     *)
(*   single   "v x=1"      keyword at the line start, spec 2 bytes later   *)
(*   paren    "v (" / tab "x=1" / ")"                                      *)
(*   func     "f {" / "}"                                                  *)
(* preceded by nothing, by a blank line, or by a line comment on the line  *)
(* before (the declaration's doc comment).                                 *)
(***************************************************************************)

\* Bound: the most top-level declarations of an input file.
MaxDecls == 3

DocText == <<"/", "/", " ", "a">>

Seps == {"none", "blank", "doc"}

Items ==
    {[sep |-> s, shape |-> "single", tok |-> x[1], val |-> x[2]] :
        s \in Seps,
        x \in {<<"import", "C">>, <<"import", "os">>, <<"const", "iota">>,
               <<"const", "lit">>, <<"type", "lit">>, <<"var", "lit">>}}
    \cup {[sep |-> s, shape |-> "paren", tok |-> k, val |-> IF k = "import" THEN "os" ELSE "lit"] :
        s \in Seps, k \in {"import", "const", "type", "var"}}
    \cup {[sep |-> s, shape |-> "func", tok |-> "func", val |-> "lit"] : s \in Seps}

\* The parser's result for the source so far: the next free offset, the line
\* table, the declarations and the comment groups.
EmptySource == [off |-> 0, ls |-> <<>>, decls |-> <<>>, cs |-> <<>>]

\* The separator before a declaration.
EmitSep(st, sep) ==
    CASE sep = "none" -> st
      [] sep = "blank" -> [st EXCEPT !.off = @ + 1, !.ls = Append(@, st.off)]
      [] sep = "doc" ->
            [st EXCEPT !.off = @ + Len(DocText) + 1,
                       !.ls = Append(@, st.off),
                       !.cs = Append(@, [list |-> <<[pos |-> st.off,
                                                     end |-> st.off + Len(DocText),
                                                     text |-> DocText]>>])]

\* One declaration, with the offsets the parser gives its nodes.
EmitDecl(st0, item, id) ==
    LET st == EmitSep(st0, item.sep)
        o == st.off
        base == [id |-> id, kind |-> "gen", tok |-> item.tok, doc |-> item.sep = "doc",
                 tokPos |-> o, lparen |-> NoPos, rparen |-> NoPos, specs |-> <<>>,
                 funcEnd |-> NoPos]
    IN  CASE item.shape = "single" ->
               [st EXCEPT !.off = o + 4,
                          !.ls = Append(@, o),
                          !.decls = Append(@, [base EXCEPT !.specs =
                              <<[name |-> id, val |-> item.val, pos |-> o + 2, end |-> o + 3]>>])]
          [] item.shape = "paren" ->
               [st EXCEPT !.off = o + 9,
                          !.ls = @ \o <<o, o + 4, o + 7>>,
                          !.decls = Append(@, [base EXCEPT
                              !.lparen = o + 2,
                              !.rparen = o + 7,
                              !.specs = <<[name |-> id, val |-> item.val,
                                           pos |-> o + 5, end |-> o + 6]>>])]
          [] item.shape = "func" ->
               [st EXCEPT !.off = o + 6,
                          !.ls = @ \o <<o, o + 4>>,
                          !.decls = Append(@, [base EXCEPT !.kind = "func", !.funcEnd = o + 5])]

RECURSIVE ParseItems(_, _, _)
ParseItems(items, i, st) ==
    IF i > Len(items) THEN st ELSE ParseItems(items, i + 1, EmitDecl(st, items[i], i))

ParsedFiles(max) ==
    {ParseItems(items, 1, EmptySource) :
        items \in UNION {[1..n -> Items] : n \in 1..max}}

Snapshot == [decls |-> ast, lines |-> lines, comments |-> comments]

InitFile ==
    /\ \E f \in ParsedFiles(MaxDecls) :
          /\ ast = f.decls
          /\ lines = f.ls
          /\ size = f.off
          /\ comments = f.cs
          /\ orig = [input |-> [decls |-> f.decls, lines |-> f.ls, comments |-> f.cs],
                     first |-> <<>>]
    /\ opts = <<>>
    /\ pc = [run |-> 1, next |-> 0]
    /\ aborted = FALSE

\* The traversal enters the file: applyPre, *ast.File.
VisitFile ==
    /\ ~aborted
    /\ pc.next = 0
    /\ LET r == ApplyPreFile(ast, lines, size, comments)
       IN  /\ ast' = r[1]
           /\ lines' = r[2].lines
           /\ aborted' = ~r[2].ok
           /\ comments' = r[3]
    /\ pc' = [pc EXCEPT !.next = 1]
    /\ UNCHANGED <<size, opts, orig>>

\* The traversal enters the next declaration: applyPre, *ast.GenDecl (a
\* function declaration with an empty two-line body has no rule that acts).
VisitDecl ==
    /\ ~aborted
    /\ pc.next \in 1..Len(ast)
    /\ LET r == IF ast[pc.next].kind = "gen"
                THEN DropSingleVarParens(ast[pc.next], Tab(lines, TRUE), comments)
                ELSE <<ast[pc.next], Tab(lines, TRUE)>>
       IN  /\ ast' = [ast EXCEPT ![pc.next] = r[1]]
           /\ lines' = r[2].lines
           /\ aborted' = ~r[2].ok
    /\ pc' = [pc EXCEPT !.next = @ + 1]
    /\ UNCHANGED <<size, comments, opts, orig>>

\* File returns; the caller runs File again on its result.
RunAgain ==
    /\ ~aborted
    /\ pc.run = 1
    /\ pc.next = Len(ast) + 1
    /\ orig' = [orig EXCEPT !.first = Snapshot]
    /\ pc' = [run |-> 2, next |-> 0]
    /\ UNCHANGED <<lines, size, ast, comments, opts, aborted>>

NextFile == VisitFile \/ VisitDecl \/ RunAgain

SpecFile == InitFile /\ [][NextFile]_vars

PassDone(run) == pc.run = run /\ pc.next = Len(ast) + 1 /\ ~aborted

\* C1: running File on the result of a previous run changes nothing: the
\* declarations, the comment texts and the line table after the second run
\* equal those after the first.
C1_Idempotent == PassDone(2) => Snapshot = orig.first

\* What the names of a declaration list denote: <<name, written value, the
\* value of iota at the spec>>.  iota is the index of the spec in its
\* declaration, from 0; a spec not written with iota does not depend on it.
Denotations(decls) ==
    UNION {{<<decls[i].specs[k].name, decls[i].specs[k].val,
              IF decls[i].tok = "const" /\ decls[i].specs[k].val = "iota" THEN k - 1 ELSE 0>> :
               k \in 1..Len(decls[i].specs)} : i \in 1..Len(decls)}

\* C3: every name declared at the top level denotes the same value after the
\* join rule as before it, constants written with iota included.
C3_JoinKeepsValues == Denotations(ast) = Denotations(orig.input.decls)

JoinKeywords == {"var", "const", "import"}

\* The trigger of the join as the claim words it, on the input file: decl j
\* joins the group headed by decl h whose last member is decl j-1.
ClaimedTrigger(decls, ls, h, j, keywords) ==
    /\ decls[h].kind = "gen" /\ decls[j].kind = "gen"
    /\ decls[h].tok \in keywords
    /\ decls[j].tok = decls[h].tok
    /\ ~decls[h].doc
    /\ decls[j].lparen = NoPos
    /\ ~IsCgoImport(decls[h]) /\ ~IsCgoImport(decls[j])
    /\ Line(ls, DeclPos(decls[j])) <= Line(ls, DeclPos(decls[j - 1])) + 1

\* The head of the group the claim puts decl j in.
RECURSIVE ClaimedHead(_, _, _, _)
ClaimedHead(decls, ls, j, keywords) ==
    IF j = 1 THEN 1
    ELSE LET h == ClaimedHead(decls, ls, j - 1, keywords)
         IN  IF ClaimedTrigger(decls, ls, h, j, keywords) THEN h ELSE j

RECURSIVE SpecNamesOf(_, _, _, _, _)
SpecNamesOf(decls, ls, h, j, keywords) ==
    IF j > Len(decls) THEN <<>>
    ELSE (IF ClaimedHead(decls, ls, j, keywords) = h
          THEN [k \in 1..Len(decls[j].specs) |-> decls[j].specs[k].name]
          ELSE <<>>) \o SpecNamesOf(decls, ls, h, j + 1, keywords)

\* The declaration list the claim describes: the heads in source order, each
\* with the specs of its group in source order, as <<id, spec names>>.
RECURSIVE ClaimedDecls(_, _, _, _)
ClaimedDecls(decls, ls, j, keywords) ==
    IF j > Len(decls) THEN <<>>
    ELSE (IF ClaimedHead(decls, ls, j, keywords) = j
          THEN <<<<decls[j].id, SpecNamesOf(decls, ls, j, j, keywords)>>>>
          ELSE <<>>) \o ClaimedDecls(decls, ls, j + 1, keywords)

DeclShape(decls) ==
    [i \in 1..Len(decls) |->
        <<decls[i].id, [k \in 1..Len(decls[i].specs) |-> decls[i].specs[k].name]>>]

AfterVisitFile == pc = [run |-> 1, next |-> 1] /\ ~aborted

\* C4: a declaration is merged into the group before it exactly when both are
\* var, const or import declarations of one keyword, the head has no doc
\* comment, the second has no parentheses, neither is the lone import "C" and
\* the second starts at most one line after the start of the declaration
\* joined before it; the head then holds the specs of its group in source
\* order and the other declarations keep their order.
C4_JoinTriggerAndResult ==
    AfterVisitFile =>
        DeclShape(ast) = ClaimedDecls(orig.input.decls, orig.input.lines, 1, JoinKeywords)

\* The same statement with type declarations among the joined keywords: what
\* the loop of applyPre does.
JoinAsCoded ==
    AfterVisitFile =>
        DeclShape(ast) = ClaimedDecls(orig.input.decls, orig.input.lines, 1,
                                      JoinKeywords \cup {"type"})

(***************************************************************************)
(* Composite literals: applyPost, *ast.CompositeLit.                       *)
(* A literal is [lbrace, rbrace, elts]; an element [kind, pos, end] with   *)
(* kind "comp" for an element that is itself a composite literal.          *)
(***************************************************************************)

\* applyPost, lines 578-590: the loop over the elements.  st is
\* [t, lastLine, around, between].
RECURSIVE ScanElts(_, _, _, _)
ScanElts(elts, i, openLine, st) ==
    IF i > Len(elts) THEN st
    ELSE LET elPos == Line(st.t.lines, elts[i].pos)
             st1 == IF elPos > st.lastLine
                    THEN IF i = 1
                         THEN [st EXCEPT !.around = TRUE,
                                         !.t = RemoveLines(@, openLine + 1, elPos)]
                         ELSE [st EXCEPT !.between = TRUE]
                    ELSE st
         IN  ScanElts(elts, i + 1, openLine,
                      [st1 EXCEPT !.lastLine = Line(st1.t.lines, elts[i].end)])

\* A slip the last loop could have: a break only between two elements that
\* are both composite literals.
NeedsOwnLineBoth(elem1, elem2) == elem1.kind = "comp" /\ elem2.kind = "comp"

\* applyPost, lines 621-625: the pairs the last loop looks at.
NeedsOwnLine(elem1, elem2) == elem1.kind = "comp" \/ elem2.kind = "comp"

\* applyPost, lines 614-629: a break between adjacent elements on one line
\* when one of them is a composite literal.
RECURSIVE SplitElts(_, _, _, _)
SplitElts(elts, i1, t, sz) ==
    IF i1 + 1 > Len(elts) THEN t
    ELSE LET elem1 == elts[i1]
             elem2 == elts[i1 + 1]
         IN  IF NeedsOwnLine(elem1, elem2)
                /\ Line(t.lines, elem1.end) = Line(t.lines, elem2.pos)
             THEN SplitElts(elts, i1 + 1, AddNewline(t, sz, elem1.end), sz)
             ELSE SplitElts(elts, i1 + 1, t, sz)

\* applyPost, *ast.CompositeLit: the table after the rule.
ApplyPostCompositeLit(node, t0, sz) ==
    IF Len(node.elts) = 0 THEN t0
    ELSE LET openLine == Line(t0.lines, node.lbrace)
             closeLine == Line(t0.lines, node.rbrace)
         IN  IF openLine = closeLine THEN t0
             ELSE LET s == ScanElts(node.elts, 1, openLine,
                                    [t |-> t0, lastLine |-> openLine,
                                     around |-> FALSE, between |-> FALSE])
                      around == s.around \/ closeLine > s.lastLine
                      first == node.elts[1]
                      last == node.elts[Len(node.elts)]
                      afterBrace == openLine = Line(s.t.lines, first.pos)
                      t1 == IF afterBrace THEN AddNewline(s.t, sz, node.lbrace + 1) ELSE s.t
                      closeLine1 == IF afterBrace THEN Line(t1.lines, node.rbrace) ELSE closeLine
                      t2 == IF closeLine1 = Line(t1.lines, last.end)
                            THEN AddNewline(t1, sz, node.rbrace)
                            ELSE t1
                      t3 == IF s.between \/ around THEN t2 ELSE s.t
                  IN  IF ~s.between THEN t3 ELSE SplitElts(node.elts, 1, t3, sz)

(***************************************************************************)
(* Specification SpecComposite: the post-order rule on one literal         *)
(*   T{ e1, e2, ... }                                                      *)
(* with 0 to 2 newlines after the opening brace, a space or a newline      *)
(* after each comma, and "}" or ",\n}" at the end.  An element is a basic  *)
(* literal "1", a literal "{}" or a two-line literal "{\n}".               *)
(***************************************************************************)

\* Bound: the most elements of the literal.
MaxElts == 3

EltShapes == {"lit", "comp", "compML"}

\* The element at offset o: <<element, its line starts, the next offset>>.
EmitElt(shape, o) ==
    CASE shape = "lit" -> <<[kind |-> "lit", pos |-> o, end |-> o + 1], <<>>, o + 1>>
      [] shape = "comp" -> <<[kind |-> "comp", pos |-> o, end |-> o + 2], <<>>, o + 2>>
      [] shape = "compML" -> <<[kind |-> "comp", pos |-> o, end |-> o + 3], <<o + 2>>, o + 3>>

\* The elements from offset o on: shapes[i] is <<shape, newline before it>>.
RECURSIVE EmitElts(_, _, _, _)
EmitElts(shapes, i, o, st) ==
    IF i > Len(shapes) THEN [st EXCEPT !.off = o]
    ELSE LET start == IF i = 1 THEN o ELSE o + 2
             r == EmitElt(shapes[i][1], start)
             brk == IF i > 1 /\ shapes[i][2] THEN <<start>> ELSE <<>>
         IN  EmitElts(shapes, i + 1, r[3],
                      [st EXCEPT !.ls = @ \o brk \o r[2], !.elts = Append(@, r[1])])

\* The parser's result for one literal.
ParseLiteral(open, shapes, close) ==
    LET opening == [k \in 1..open |-> 2 + k]
        st == EmitElts(shapes, 1, 2 + open,
                       [off |-> 0, ls |-> <<0>> \o opening, elts |-> <<>>])
        rbrace == IF close THEN st.off + 2 ELSE st.off
    IN  [node |-> [lbrace |-> 1, rbrace |-> rbrace, elts |-> st.elts],
         ls |-> st.ls \o (IF close THEN <<rbrace>> ELSE <<>>),
         size |-> rbrace + 2]

ParsedLiterals(max) ==
    {ParseLiteral(open, shapes, close) :
        open \in 0..2,
        shapes \in UNION {[1..n -> EltShapes \X BOOLEAN] : n \in 1..max},
        close \in BOOLEAN}

InitComposite ==
    /\ \E l \in ParsedLiterals(MaxElts) :
          /\ ast = l.node
          /\ lines = l.ls
          /\ size = l.size
          /\ orig = [node |-> l.node, lines |-> l.ls]
    /\ comments = <<>>
    /\ opts = <<>>
    /\ pc = "start"
    /\ aborted = FALSE

\* The traversal leaves the literal: applyPost, *ast.CompositeLit.
LeaveCompositeLit ==
    /\ pc = "start"
    /\ LET t == ApplyPostCompositeLit(ast, Tab(lines, TRUE), size)
       IN  /\ lines' = t.lines
           /\ aborted' = ~t.ok
    /\ pc' = "post"
    /\ UNCHANGED <<size, ast, comments, opts, orig>>

NextComposite == LeaveCompositeLit

SpecComposite == InitComposite /\ [][NextComposite]_vars

\* Two adjacent elements are on different lines: the first byte of the second
\* is on a later line than the last byte of the first.
OnDifferentLines(ls, e1, e2) == Line(ls, e1.end - 1) < Line(ls, e2.pos)

EltPairs == 1..(Len(ast.elts) - 1)

\* The case of the rule: braces on different lines and some two adjacent
\* elements on different lines when the rule runs.
BrokenBetweenElts ==
    /\ Len(orig.node.elts) >= 1
    /\ Line(orig.lines, orig.node.lbrace) # Line(orig.lines, orig.node.rbrace)
    /\ \E i \in EltPairs : OnDifferentLines(orig.lines, orig.node.elts[i], orig.node.elts[i + 1])

\* C6 as claimed: in that case every two adjacent elements end up on different
\* lines, whatever their kind.
C6_OneElementPerLine ==
    (pc = "post" /\ BrokenBetweenElts) =>
        \A i \in EltPairs : OnDifferentLines(lines, ast.elts[i], ast.elts[i + 1])

\* C6 as amended: in that case every two adjacent elements of which at least
\* one is itself a composite literal end up on different lines; two adjacent
\* elements that are both no composite literal stay on one line, or on two,
\* as they were.
C6_CompositeElementsPerLine ==
    (pc = "post" /\ BrokenBetweenElts) =>
        \A i \in EltPairs :
            LET e1 == ast.elts[i]
                e2 == ast.elts[i + 1]
            IN  IF e1.kind = "comp" \/ e2.kind = "comp"
                THEN OnDifferentLines(lines, e1, e2)
                ELSE OnDifferentLines(lines, e1, e2) <=> OnDifferentLines(orig.lines, e1, e2)

\* C6 witness: a basic literal and a composite literal that shared a line
\* are on two lines after the rule.
C6_Witness ==
    /\ pc = "post"
    /\ BrokenBetweenElts
    /\ \E i \in EltPairs :
          /\ ast.elts[i].kind # ast.elts[i + 1].kind
          /\ ~OnDifferentLines(orig.lines, ast.elts[i], ast.elts[i + 1])
          /\ OnDifferentLines(lines, ast.elts[i], ast.elts[i + 1])

(***************************************************************************)
(* Import declarations: joinStdImports and ast.SortImports.                *)
(* An import spec is [id, path, name, cmt, namePos, pathPos, endPos]: path *)
(* the sequence of the segments of the unquoted path ("." and "/" are      *)
(* segments), name whether the import is renamed, cmt whether it has an    *)
(* inline comment (spec.Comment), endPos the EndPos field (NoPos as the    *)
(* parser leaves it).  The quoted path takes one byte.                     *)
(***************************************************************************)

ImportPos(s) == IF s.name THEN s.namePos ELSE s.pathPos

\* ast.ImportSpec.End.
ImportEnd(s) == IF s.endPos # NoPos THEN s.endPos ELSE s.pathPos + 1

\* setPos(reflect.ValueOf(spec), pos): every position field of the spec.
SetPos(s, pos) ==
    [s EXCEPT !.namePos = IF s.name THEN pos ELSE @, !.pathPos = pos, !.endPos = pos]

\* strings.Contains(path, ".").
HasDot(path) == \E i \in 1..Len(path) : path[i] = "."

\* strings.HasPrefix(path, word + "/").
HasPrefixDir(path, word) == Len(path) >= 2 /\ path[1] = word /\ path[2] = "/"

\* A slip the classification could have: the inline comment not looked at.
IsOtherImportNoComment(s, firstGroup) ==
    \/ HasDot(s.path)
    \/ HasPrefixDir(s.path, "test") \/ HasPrefixDir(s.path, "example")
       \/ HasPrefixDir(s.path, "internal")
    \/ ~firstGroup /\ s.name

\* joinStdImports, lines 788-803: the switch that sends a spec to other.
IsOtherImport(s, firstGroup) ==
    \/ HasDot(s.path)
    \/ HasPrefixDir(s.path, "test") \/ HasPrefixDir(s.path, "example")
       \/ HasPrefixDir(s.path, "internal")
    \/ ~firstGroup /\ (s.name \/ s.cmt)

\* joinStdImports, lines 775-812: the loop over the specs.  st is
\* [std, other, firstGroup, lastEnd, needsSort].
RECURSIVE ClassifyImports(_, _, _, _, _, _)
ClassifyImports(specs, i, dPos, ls, cs, st) ==
    IF i > Len(specs) THEN st
    ELSE LET spec == specs[i]
             coms == CommentsBetween(cs, st.lastEnd, ImportPos(spec))
             lastEnd1 == IF coms # <<>> THEN GroupEnd(coms[Len(coms)]) ELSE st.lastEnd
             leaves == i > 1 /\ st.firstGroup
                       /\ Line(ls, ImportPos(spec)) > Line(ls, lastEnd1) + 1
             firstGroup == IF leaves THEN FALSE ELSE st.firstGroup
             lastEnd2 == IF leaves THEN lastEnd1 ELSE ImportEnd(spec)
             st1 == [st EXCEPT !.firstGroup = firstGroup, !.lastEnd = lastEnd2]
         IN  IF IsOtherImport(spec, firstGroup)
             THEN ClassifyImports(specs, i + 1, dPos, ls, cs,
                                  [st1 EXCEPT !.other = Append(@, spec)])
             ELSE IF ~firstGroup \/ Len(st1.other) > 0
             THEN ClassifyImports(specs, i + 1, dPos, ls, cs,
                                  [st1 EXCEPT !.std = Append(@, SetPos(spec, dPos)),
                                              !.needsSort = TRUE])
             ELSE ClassifyImports(specs, i + 1, dPos, ls, cs,
                                  [st1 EXCEPT !.std = Append(@, spec)])

\* The import paths of the model in the order of their strings.
PathOrder ==
    << <<"a", ".", "b">>, <<"example", "/", "x">>, <<"internal", "/", "x">>,
       <<"os">>, <<"test", "/", "x">>, <<"testing">> >>

PathRank(path) == CHOOSE r \in 1..Len(PathOrder) : PathOrder[r] = path

\* sort.Slice by import path, on a run of specs with different paths.
RECURSIVE SortByPath(_)
SortByPath(run) ==
    IF run = <<>> THEN <<>>
    ELSE LET k == CHOOSE k \in 1..Len(run) :
                     \A j \in 1..Len(run) : PathRank(run[k].path) <= PathRank(run[j].path)
         IN  <<run[k]>> \o SortByPath(RemoveAt(run, k))

\* sortSpecs, the loop that assigns each comment group of the run's range
\* to a spec: the owners <<index in the run, left>> of gs[k..], specIndex
\* being carried from one group to the next; pos are the recorded spans.
RECURSIVE OwnersOfComments(_, _, _, _, _)
OwnersOfComments(gs, k, specIndex, pos, ls) ==
    IF k > Len(gs) THEN <<>>
    ELSE LET n == Len(pos)
             g == gs[k]
             stops == {i \in specIndex..n : i = n \/ pos[i + 1][1] > GroupPos(g)}
             at == MinOf(stops)
             own == IF at = 1 /\ pos[1][1] > GroupPos(g) THEN <<1, TRUE>>
                    ELSE IF at + 1 <= n /\ Line(ls, pos[at][1]) + 1 = Line(ls, GroupPos(g))
                    THEN <<at + 1, TRUE>>
                    ELSE <<at, FALSE>>
         IN  <<own>> \o OwnersOfComments(gs, k + 1, own[1], pos, ls)

\* Moves a comment group so that it starts at offset p.
MoveGroup(g, p) ==
    [g EXCEPT !.list = [k \in 1..Len(g.list) |->
        [g.list[k] EXCEPT !.pos = p, !.end = p + (g.list[k].end - g.list[k].pos)]]]

RECURSIVE SortGroups(_)
SortGroups(gs) ==
    IF gs = <<>> THEN <<>>
    ELSE LET k == CHOOSE k \in 1..Len(gs) :
                     /\ \A j \in 1..Len(gs) : GroupPos(gs[k]) <= GroupPos(gs[j])
                     /\ \A j \in 1..(k - 1) : GroupPos(gs[j]) > GroupPos(gs[k])
         IN  <<gs[k]>> \o SortGroups(RemoveAt(gs, k))

\* sortSpecs: the recorded <<Start, End>> of each spec of the run.
SpansOf(run) == [i \in 1..Len(run) |-> <<ImportPos(run[i]), ImportEnd(run[i])>>]

\* sortSpecs: the end of the run's range, the start of the line after its
\* last spec (the spec's end on the last line of the file).
RunEnd(ls, pos) ==
    LET endLine == Line(ls, pos[Len(pos)][2])
    IN  IF endLine = LineCount(ls) THEN pos[Len(pos)][2] ELSE LineStart(ls, endLine + 1)

\* sortSpecs: the indices of the comment groups inside [beg, end).
CommentsOfRun(cs, beg, end) ==
    {i \in 1..PrefixLen(cs, {g \in Range(cs) : GroupEnd(g) < end}) : beg <= GroupPos(cs[i])}

\* sortSpecs: the sorted specs take the recorded positions in order.
PlaceSpecs(sorted, pos) ==
    [i \in 1..Len(sorted) |->
        [sorted[i] EXCEPT !.namePos = IF sorted[i].name THEN pos[i][1] ELSE @,
                          !.pathPos = pos[i][1],
                          !.endPos = pos[i][2]]]

IndexOfId(sorted, id) == CHOOSE i \in 1..Len(sorted) : sorted[i].id = id

\* sortSpecs: each comment group goes with its spec, before it when left.
MoveComments(gs, owners, run, sorted, pos) ==
    [k \in 1..Len(gs) |->
        MoveGroup(gs[k],
                  IF owners[k][2] THEN pos[IndexOfId(sorted, run[owners[k][1]].id)][1] - 1
                  ELSE pos[IndexOfId(sorted, run[owners[k][1]].id)][2])]

\* sortSpecs: the comment list with groups first..last of the run replaced.
ReplaceComments(cs, first, last, run, sorted, pos, ls) ==
    SubSeq(cs, 1, first - 1)
    \o SortGroups(MoveComments(SubSeq(cs, first, last),
                               OwnersOfComments(SubSeq(cs, first, last), 1, 1, pos, ls),
                               run, sorted, pos))
    \o SubSeq(cs, last + 1, Len(cs))

SortSpecsIn(run, pos, sorted, inRange, ls, cs) ==
    IF inRange = {} THEN <<PlaceSpecs(sorted, pos), cs>>
    ELSE <<PlaceSpecs(sorted, pos),
           ReplaceComments(cs, MinOf(inRange), MaxOf(inRange), run, sorted, pos, ls)>>

\* sortSpecs on one run: <<the run sorted, with the recorded positions handed
\* out in order; the comments, those of the run moved with their specs>>.
SortSpecs(run, ls, cs) ==
    IF Len(run) <= 1 THEN <<run, cs>>
    ELSE SortSpecsIn(run, SpansOf(run), SortByPath(run),
                     CommentsOfRun(cs, LineStart(ls, Line(ls, ImportPos(run[1]))),
                                   RunEnd(ls, SpansOf(run))),
                     ls, cs)

\* ast.SortImports on the declaration: the runs of specs on successive lines
\* are sorted one by one; i is the start of the current run, j the next spec.
RECURSIVE SortRuns(_, _, _, _, _, _)
SortRuns(specs, i, j, done, ls, cs) ==
    IF j > Len(specs)
    THEN LET r == SortSpecs(SubSeq(specs, i, Len(specs)), ls, cs)
         IN  <<done \o r[1], r[2]>>
    ELSE IF j > i /\ Line(ls, ImportPos(specs[j])) > 1 + Line(ls, ImportEnd(specs[j - 1]))
    THEN LET r == SortSpecs(SubSeq(specs, i, j - 1), ls, cs)
         IN  SortRuns(specs, j, j + 1, done \o r[1], ls, r[2])
    ELSE SortRuns(specs, i, j + 1, done, ls, cs)

\* ast.SortImports, the end: no blank line is left before the closing
\* parenthesis.
RECURSIVE TrimBeforeRparen(_, _, _)
TrimBeforeRparen(t, rParenLine, lastLine) ==
    IF ~t.ok \/ ~(rParenLine > lastLine + 1) THEN t
    ELSE TrimBeforeRparen(MergeLine(t, rParenLine - 1), rParenLine - 1, lastLine)

\* ast.SortImports: <<specs, table, comments>>.
SortImports(d, specs, t, cs) ==
    LET r == SortRuns(specs, 1, 1, <<>>, t.lines, cs)
        lastSpec == r[1][Len(r[1])]
    IN  <<r[1],
          TrimBeforeRparen(t, Line(t.lines, d.rparen), Line(t.lines, ImportPos(lastSpec))),
          r[2]>>

\* A slip joinStdImports could have: the separating newlines left out.
SeparateImportsNot(std, other, t, sz) == t

\* joinStdImports, lines 813-821: the empty line between std and other.
SeparateImports(std, other, t, sz) ==
    IF Len(std) > 0 /\ Len(other) > 0
       /\ Line(t.lines, ImportEnd(std[Len(std)])) + 1 >= Line(t.lines, ImportPos(other[1]))
    THEN AddNewline(AddNewline(t, sz, ImportPos(other[1]) - 1), sz, ImportPos(other[1]))
    ELSE t

\* joinStdImports(d): [specs, t, comments, joined, sorted], joined being
\* d.Specs as assigned at line 823 and sorted whether SortImports ran.
JoinStdImports(d, t0, sz, cs) ==
    LET c == ClassifyImports(d.specs, 1, d.tokPos, t0.lines, cs,
                             [std |-> <<>>, other |-> <<>>, firstGroup |-> TRUE,
                              lastEnd |-> d.tokPos, needsSort |-> FALSE])
        t1 == SeparateImports(c.std, c.other, t0, sz)
        joined == c.std \o c.other
    IN  IF c.needsSort /\ t1.ok
        THEN LET s == SortImports(d, joined, t1, cs)
             IN  [specs |-> s[1], t |-> s[2], comments |-> s[3],
                  joined |-> joined, sorted |-> TRUE]
        ELSE [specs |-> joined, t |-> t1, comments |-> cs,
              joined |-> joined, sorted |-> FALSE]

(***************************************************************************)
(* Specification SpecImports: applyPre, *ast.GenDecl on one parenthesised  *)
(* import declaration                                                      *)
(*   import (              "i(" at 0, "(" at 1                             *)
(*   <tab>[name ]"path"[ //c]                                              *)
(*   )                                                                     *)
(* with or without an empty line before each spec after the first.         *)
(***************************************************************************)

\* Bound: the most specs of the import declaration.
MaxImports == 3

Decorations == {"none", "name", "cmt"}

\* One spec line at offset o (after an empty line when blank).
EmitImport(st, path, deco, blank, id) ==
    LET o == IF blank THEN st.off + 1 ELSE st.off
        starts == IF blank THEN <<st.off, o>> ELSE <<o>>
        pathPos == IF deco = "name" THEN o + 3 ELSE o + 1
        spec == [id |-> id, path |-> path, name |-> deco = "name", cmt |-> deco = "cmt",
                 namePos |-> IF deco = "name" THEN o + 1 ELSE NoPos,
                 pathPos |-> pathPos, endPos |-> NoPos]
        end == pathPos + 1
    IN  IF deco = "cmt"
        THEN [st EXCEPT !.off = end + 4,
                        !.ls = @ \o starts,
                        !.specs = Append(@, spec),
                        !.cs = Append(@, [list |-> <<[pos |-> end + 1, end |-> end + 3,
                                                      text |-> <<"/", "/">>]>>])]
        ELSE [st EXCEPT !.off = end + 1, !.ls = @ \o starts, !.specs = Append(@, spec)]

RECURSIVE EmitImports(_, _, _)
EmitImports(rows, i, st) ==
    IF i > Len(rows) THEN st
    ELSE EmitImports(rows, i + 1,
                     EmitImport(st, rows[i][1], rows[i][2], i > 1 /\ rows[i][3], i))

\* The parser's result for the declaration.
ParseImportDecl(rows) ==
    LET st == EmitImports(rows, 1, [off |-> 3, ls |-> <<0>>, specs |-> <<>>, cs |-> <<>>])
    IN  [decl |-> [tokPos |-> 0, lparen |-> 1, rparen |-> st.off, specs |-> st.specs],
         ls |-> Append(st.ls, st.off),
         cs |-> st.cs,
         size |-> st.off + 2]

\* The rows of a declaration of n specs: n different paths, each spec bare,
\* named or with an inline comment, an empty line before it or not (none
\* before the first).
ImportRows(n) ==
    {[i \in 1..n |-> <<paths[i], decos[i][1], decos[i][2]>>] :
        paths \in {ps \in [1..n -> Range(PathOrder)] :
                      \A i \in 1..n, j \in 1..n : i # j => ps[i] # ps[j]},
        decos \in {ds \in [1..n -> Decorations \X BOOLEAN] : ~ds[1][2]}}

InitImports ==
    /\ \E n \in 1..MaxImports : \E rows \in ImportRows(n) :
          \E f \in {ParseImportDecl(rows)} :
              /\ ast = [decl |-> f.decl, joined |-> <<>>, sorted |-> FALSE]
              /\ lines = f.ls
              /\ size = f.size
              /\ comments = f.cs
              /\ orig = [decl |-> f.decl, lines |-> f.ls, comments |-> f.cs, rows |-> rows]
    /\ opts = <<>>
    /\ pc = "start"
    /\ aborted = FALSE

\* The traversal enters the declaration: applyPre, *ast.GenDecl, lines
\* 413-415 (Tok is IMPORT and Lparen is valid).
VisitImportDecl ==
    /\ pc = "start"
    /\ \E r \in {JoinStdImports(ast.decl, Tab(lines, TRUE), size, comments)} :
           /\ ast' = [decl |-> [ast.decl EXCEPT !.specs = r.specs],
                      joined |-> r.joined, sorted |-> r.sorted]
           /\ lines' = r.t.lines
           /\ aborted' = ~r.t.ok
           /\ comments' = r.comments
    /\ pc' = "joined"
    /\ UNCHANGED <<size, opts, orig>>

NextImports == VisitImportDecl

SpecImports == InitImports /\ [][NextImports]_vars

\* The classes as the claim words them, read off the source: row i is past
\* the first group when an empty line precedes it or an earlier row.
PastFirstGroup(i) == \E k \in 2..i : orig.rows[k][3]

ClaimedOther(i) ==
    LET path == orig.rows[i][1]
    IN  \/ \E k \in 1..Len(path) : path[k] = "."
        \/ path[1] \in {"test", "example", "internal"} /\ Len(path) >= 2 /\ path[2] = "/"
        \/ PastFirstGroup(i) /\ orig.rows[i][2] \in {"name", "cmt"}

Ids(specs) == [i \in 1..Len(specs) |-> specs[i].id]

InSourceOrder(ids) == \A i \in 1..Len(ids), j \in 1..Len(ids) : i < j => ids[i] < ids[j]

\* A standard spec is relocated when it leaves a later group for the first or
\* passes a spec classified other.
Relocated(i) == ~ClaimedOther(i) /\ (PastFirstGroup(i) \/ \E k \in 1..(i - 1) : ClaimedOther(k))

FieldPos(fld) == IF Len(fld.names) > 0 THEN fld.names[1].pos ELSE fld.type.pos

\* cmp.Equal(f1.Type, f2.Type, opt), every two token.Pos comparing equal.
TypesEqual(t1, t2) == t1.shape = t2.shape

\* A slip the check could have: the lines of the two fields not compared.
ShouldMergeAnyLine(ls, f1, f2) ==
    /\ Len(f1.names) # 0 /\ Len(f2.names) # 0
    /\ TypesEqual(f1.type, f2.type)

\* fumpter.shouldMergeAdjacentFields(f1, f2).
ShouldMergeAdjacentFields(ls, f1, f2) ==
    /\ Len(f1.names) # 0 /\ Len(f2.names) # 0
    /\ Line(ls, FieldPos(f1)) = Line(ls, FieldPos(f2))
    /\ TypesEqual(f1.type, f2.type)

\* mergeAdjacentFields, the loop: out is fields[:i+1], j the next index.
RECURSIVE MergeLoop(_, _, _, _)
MergeLoop(ls, fields, out, j) ==
    IF j > Len(fields) THEN out
    ELSE LET i == Len(out)
         IN  IF ShouldMergeAdjacentFields(ls, out[i], fields[j])
             THEN MergeLoop(ls, fields,
                            [out EXCEPT ![i].names = @ \o fields[j].names], j + 1)
             ELSE MergeLoop(ls, fields, Append(out, fields[j]), j + 1)

\* fumpter.mergeAdjacentFields(fields).
MergeAdjacentFields(ls, fields) ==
    IF Len(fields) < 2 THEN fields
    ELSE MergeLoop(ls, fields, <<fields[1]>>, 2)

\* ast.FieldList.NumFields.
NumFields(list) == SeqSum([i \in 1..Len(list) |->
                              IF Len(list[i].names) = 0 THEN 1 ELSE Len(list[i].names)])

Parents == {"FuncDecl", "FuncType", "InterfaceType", "StructType"}

\* applyPre, *ast.FieldList on node [opening, closing, list] under parent:
\* <<list, line table>>.
ApplyPreFieldList(node, parent, extraRules, t, cs) ==
    LET t1 == IF NumFields(node.list) = 0
                 /\ InlineComment(cs, t.lines, node.opening) = NoComment
              THEN RemoveLines(t, Line(t.lines, node.opening),
                               Line(t.lines, node.closing + 1))
              ELSE t
    IN  IF extraRules /\ parent \in {"FuncDecl", "FuncType", "InterfaceType"}
        THEN <<MergeAdjacentFields(t1.lines, node.list), t1>>
        ELSE <<node.list, t1>>

(***************************************************************************)
(* Specification SpecFields: one field list                                *)
(*   ( a, b T, c T,         each name and type one byte, ", " or " "       *)
(*   <tab>d U )             between, ",\n\t" before a field on a new line  *)
(***************************************************************************)

\* Bound: the most fields of the list.
MaxFields == 3

TypeShapes == {"T", "U"}

\* One field at the current offset, on a new line when brk.
EmitField(st, nNames, shape, brk) ==
    LET o == IF brk THEN st.off + 2 ELSE st.off
        names == [k \in 1..nNames |-> [name |-> st.count + k, pos |-> o + 3 * (k - 1)]]
        typePos == o + 3 * nNames
        fld == [names |-> names, type |-> [shape |-> shape, pos |-> typePos]]
    IN  [off |-> typePos + 3,
         ls |-> IF brk THEN Append(st.ls, o - 1) ELSE st.ls,
         list |-> Append(st.list, fld),
         count |-> st.count + nNames]

RECURSIVE EmitFields(_, _, _)
EmitFields(rows, i, st) ==
    IF i > Len(rows) THEN st
    ELSE EmitFields(rows, i + 1, EmitField(st, rows[i][1], rows[i][2], rows[i][3]))

\* The parser's result for a list with fields.
ParseFieldList(rows) ==
    LET st == EmitFields(rows, 1, [off |-> 1, ls |-> <<0>>, list |-> <<>>, count |-> 0])
    IN  [node |-> [opening |-> 0, closing |-> st.off - 2, list |-> st.list],
         ls |-> st.ls, cs |-> <<>>, size |-> st.off]

\* The parser's results for "()", "(\n)" and "( //\n)".
EmptyFieldLists ==
    {[node |-> [opening |-> 0, closing |-> 1, list |-> <<>>],
      ls |-> <<0>>, cs |-> <<>>, size |-> 3],
     [node |-> [opening |-> 0, closing |-> 2, list |-> <<>>],
      ls |-> <<0, 2>>, cs |-> <<>>, size |-> 4],
     [node |-> [opening |-> 0, closing |-> 5, list |-> <<>>],
      ls |-> <<0, 5>>,
      cs |-> <<[list |-> <<[pos |-> 2, end |-> 4, text |-> <<"/", "/">>]>>]>>,
      size |-> 7]}

\* What each parent's grammar admits: parameters are all named or all
\* unnamed, an interface method has one name.
FieldRows(parent) ==
    {rows \in UNION {[1..n -> (0..2) \X TypeShapes \X BOOLEAN] : n \in 1..MaxFields} :
        /\ parent \in {"FuncDecl", "FuncType"} =>
              \A i \in 1..Len(rows), j \in 1..Len(rows) : (rows[i][1] = 0) = (rows[j][1] = 0)
        /\ parent = "InterfaceType" => \A i \in 1..Len(rows) : rows[i][1] <= 1}

InitFields ==
    /\ \E parent \in Parents :
          \E f \in EmptyFieldLists \cup {ParseFieldList(rows) : rows \in FieldRows(parent)} :
             /\ ast = [node |-> f.node, parent |-> parent]
             /\ lines = f.ls
             /\ size = f.size
             /\ comments = f.cs
             /\ orig = [node |-> f.node, lines |-> f.ls]
    /\ opts \in [ExtraRules : BOOLEAN]
    /\ pc = "start"
    /\ aborted = FALSE

\* The traversal enters the field list.
VisitFieldList ==
    /\ pc = "start"
    /\ LET r == ApplyPreFieldList(ast.node, ast.parent, opts.ExtraRules,
                                  Tab(lines, TRUE), comments)
       IN  /\ ast' = [ast EXCEPT !.node.list = r[1]]
           /\ lines' = r[2].lines
           /\ aborted' = ~r[2].ok
    /\ pc' = "visited"
    /\ UNCHANGED <<size, comments, opts, orig>>

NextFields == VisitFieldList

SpecFields == InitFields /\ [][NextFields]_vars

RECURSIVE Flatten(_)
Flatten(ss) == IF ss = <<>> THEN <<>> ELSE Head(ss) \o Flatten(Tail(ss))

NamesOf(list) == Flatten([i \in 1..Len(list) |-> list[i].names])

\* The name-to-type-shape pairs a field list declares.
Typing(list) ==
    UNION {{<<list[i].names[k].name, list[i].type.shape>> : k \in 1..Len(list[i].names)} :
              i \in 1..Len(list)}

\* Fields i-1 and i of the source belong to one run.
SameRun(i) ==
    LET l == orig.node.list
    IN  /\ Len(l[i - 1].names) > 0 /\ Len(l[i].names) > 0
        /\ Line(orig.lines, FieldPos(l[i - 1])) = Line(orig.lines, FieldPos(l[i]))
        /\ l[i - 1].type.shape = l[i].type.shape

RunHeads == {i \in 1..Len(orig.node.list) : i = 1 \/ ~SameRun(i)}

\* The fields of the source's run starting at h.
RunOf(h) ==
    LET l == orig.node.list
        last == MinOf({j \in h..Len(l) : j = Len(l) \/ (j + 1) \in RunHeads})
    IN  SubSeq(l, h, last)

\* C8: with ExtraRules on and a parent that is a function declaration,
\* function type or interface type, each maximal run of adjacent named fields
\* on one line with equal types becomes one field carrying the run's names in
\* order; the names, their order and each name's type are kept and the number
\* of fields does not grow.  With ExtraRules off or under a struct type the
\* list is unchanged.
C8_FieldMerge ==
    pc = "visited" =>
        LET in == orig.node.list
            out == ast.node.list
        IN  IF opts.ExtraRules /\ ast.parent \in {"FuncDecl", "FuncType", "InterfaceType"}
            THEN /\ NamesOf(out) = NamesOf(in)
                 /\ Typing(out) = Typing(in)
                 /\ Len(out) <= Len(in)
                 /\ Len(out) = Cardinality(RunHeads)
                 /\ \A k \in 1..Len(out) :
                       \E h \in RunHeads :
                          /\ Cardinality({g \in RunHeads : g <= h}) = k
                          /\ out[k].names = NamesOf(RunOf(h))
                          /\ out[k].type = in[h].type
            ELSE out = in

\* C8 witness: three parameters, the first two named, on one line and of one
\* type, the third of another type, have become two fields.
C8_Witness ==
    /\ pc = "visited"
    /\ opts.ExtraRules /\ ast.parent = "FuncType"
    /\ Len(orig.node.list) = 3 /\ Len(ast.node.list) = 2
    /\ Len(ast.node.list[1].names) > Len(orig.node.list[1].names)
    /\ ast.node.list[2] = orig.node.list[3]

(***************************************************************************)
(* Statement lists, blocks and case clauses: stmts, printLength and        *)
(* applyPre on *ast.BlockStmt, *ast.CaseClause and *ast.CommClause         *)
(* A statement is [kind, pos, end, tok, lastLhs, init, els, cond].         *)
(***************************************************************************)

shortLineLimit == 60

\* A slip the guard test could have: Init and Else not looked at.
IsErrGuardAnyIf(prev, cur) ==
    /\ cur.kind = "IfStmt"
    /\ prev.kind = "AssignStmt" /\ prev.tok = "DEFINE" /\ prev.lastLhs = "err"
    /\ cur.cond.kind = "BinaryExpr"
    /\ cur.cond.op = "NEQ" /\ cur.cond.x = "err" /\ cur.cond.y = "nil"

\* stmts, lines 729-745: the tests list[i-1], list[i] pass to reach line 746.
IsErrGuard(prev, cur) ==
    /\ cur.kind = "IfStmt"
    /\ prev.kind = "AssignStmt" /\ prev.tok = "DEFINE" /\ prev.lastLhs = "err"
    /\ cur.cond.kind = "BinaryExpr" /\ ~cur.init /\ ~cur.els
    /\ cur.cond.op = "NEQ" /\ cur.cond.x = "err" /\ cur.cond.y = "nil"

\* fumpter.stmts(list), from index i on.
RECURSIVE StmtsFrom(_, _, _)
StmtsFrom(list, i, t) ==
    IF i > Len(list) THEN t
    ELSE IF i >= 2 /\ IsErrGuard(list[i - 1], list[i])
    THEN StmtsFrom(list, i + 1, RemoveLinesBetween(t, list[i - 1].end, list[i].pos))
    ELSE StmtsFrom(list, i + 1, t)

Stmts(list, t) == StmtsFrom(list, 1, t)

\* ast.CaseClause.End: the end of the body, the colon's when there is none.
ClauseEnd(node) ==
    IF Len(node.list) > 0 THEN node.list[Len(node.list)].end ELSE node.colon + 1

\* format.Node on a statement alone: its bytes.
RenderStmt(s) == s.end - s.pos

\* format.Node on the node alone, at indentation 0, the line table deciding
\* where a case list breaks: "case a,<break>b:" and the body one tab in, or
\* "{", the statements one tab in, "}".
Render(node, ls) ==
    LET body == SeqSum([i \in 1..Len(node.list) |-> 2 + RenderStmt(node.list[i])])
    IN  IF node.kind = "BlockStmt"
        THEN IF Len(node.list) = 0 THEN 2 ELSE 1 + body + 2
        ELSE 5 + SeqSum([i \in 1..Len(node.exprs) |->
                           (node.exprs[i].end - node.exprs[i].pos)
                           + (IF i = 1 THEN 0
                              ELSE IF Line(ls, node.exprs[i].pos) # Line(ls, node.exprs[i - 1].end)
                              THEN 3 ELSE 2)])
               + 1 + body

\* fumpter.printLength(node), end being node.End().
PrintLength(node, end, level, ls, cs) ==
    LET c == InlineComment(cs, ls, end)
    IN  Render(node, ls) + (IF c = NoComment THEN 0 ELSE 1 + Len(c.text)) + level * 8

\* A slip the comparison could have: the limit itself counted as too long.
TooLongAtLimit(n) == n >= shortLineLimit

\* applyPre, *ast.CaseClause, line 516.
TooLong(n) == n > shortLineLimit

\* applyPre, *ast.BlockStmt, lines 465-478: <<bodyPos, bodyEnd>>.
BodySpan(node, inside) ==
    LET pos0 == IF Len(node.list) > 0 THEN node.list[1].pos ELSE NoPos
        end0 == IF Len(node.list) > 0 THEN node.list[Len(node.list)].end ELSE NoPos
        first == IF Len(inside) > 0 THEN GroupPos(inside[1]) ELSE NoPos
        last == IF Len(inside) > 0 THEN GroupEnd(inside[Len(inside)]) ELSE NoPos
        pos1 == IF Len(inside) > 0 /\ (pos0 = NoPos \/ first < pos0) THEN first ELSE pos0
        end1 == IF Len(inside) > 0 /\ (pos1 = NoPos \/ last > end0) THEN last ELSE end0
    IN  <<pos1, end1>>

\* applyPre, *ast.BlockStmt, lines 482-500: the empty line after the brace
\* is left for a multi-line condition or signature.
KeepsLeadingLine(parent, ls) ==
    \/ /\ parent.kind \in {"IfStmt", "ForStmt"}
       /\ Line(ls, parent.pos) # Line(ls, parent.end)
    \/ /\ parent.kind \in {"FuncDecl", "FuncLit"}
       /\ parent.lastParam # NoPos
       /\ Line(ls, parent.pos) # Line(ls, parent.end)
       /\ Line(ls, parent.lastParam) = Line(ls, parent.end)

\* applyPre, *ast.BlockStmt.
ApplyPreBlockStmt(node, t0, cs) ==
    LET t1 == Stmts(node.list, t0)
        inside == CommentsBetween(cs, node.lbrace, node.rbrace)
        sign == node.parent.kind \in {"FuncDecl", "FuncLit"}
        span == BodySpan(node, inside)
        t2 == RemoveLinesBetween(t1, span[2], node.rbrace)
    IN  IF Len(node.list) = 0 /\ Len(inside) = 0
        THEN RemoveLinesBetween(t1, node.lbrace, node.rbrace)
        ELSE IF Len(node.list) > 1 /\ ~sign THEN t1
        ELSE IF ~t2.ok \/ KeepsLeadingLine(node.parent, t2.lines) THEN t2
        ELSE RemoveLinesBetween(t2, node.lbrace, span[1])

\* applyPre, *ast.CaseClause.
ApplyPreCaseClause(node, t0, cs) ==
    LET t1 == Stmts(node.list, t0)
        openLine == Line(t1.lines, node.casePos)
        closeLine == Line(t1.lines, node.colon)
    IN  IF ~t1.ok \/ openLine = closeLine THEN t1
        ELSE IF Len(CommentsBetween(cs, node.casePos, node.colon)) > 0 THEN t1
        ELSE IF TooLong(PrintLength(node, ClauseEnd(node), node.level, t1.lines, cs)) THEN t1
        ELSE RemoveLines(t1, openLine, closeLine)

\* applyPre, *ast.CommClause.
ApplyPreCommClause(node, t0) == Stmts(node.list, t0)

(***************************************************************************)
(* Specification SpecBlock: one block, case clause or comm clause          *)
(*   <header> {          each statement on a line of its own, one tab in,  *)
(*   <tab>stmt           as gofmt prints (the package's documented domain, *)
(*   }                   format.go lines 4-6)                              *)
(***************************************************************************)

\* Bound: the most statements of a list.
MaxStmts == 2

NoCond == [kind |-> "none", op |-> "", x |-> "", y |-> ""]

GuardIf == [kind |-> "IfStmt", tok |-> "", lastLhs |-> "", init |-> FALSE, els |-> FALSE,
            cond |-> [kind |-> "BinaryExpr", op |-> "NEQ", x |-> "err", y |-> "nil"]]

IfTemplates ==
    {GuardIf,
     [GuardIf EXCEPT !.init = TRUE],
     [GuardIf EXCEPT !.els = TRUE],
     [GuardIf EXCEPT !.cond.op = "EQL"],
     [GuardIf EXCEPT !.cond.x = "x"],
     [GuardIf EXCEPT !.cond.y = "x"],
     [GuardIf EXCEPT !.cond = [kind |-> "CallExpr", op |-> "", x |-> "", y |-> ""]]}

AssignTemplates ==
    {[kind |-> "AssignStmt", tok |-> a[1], lastLhs |-> a[2], init |-> FALSE, els |-> FALSE,
      cond |-> NoCond] : a \in {<<"DEFINE", "err">>, <<"DEFINE", "x">>, <<"ASSIGN", "err">>}}

ExprTemplate == [kind |-> "ExprStmt", tok |-> "", lastLhs |-> "", init |-> FALSE,
                 els |-> FALSE, cond |-> NoCond]

Gaps == {"none", "blank", "comment"}

\* The comment "//c" at pos.
CommentAt(pos) == [list |-> <<[pos |-> pos, end |-> pos + 3, text |-> <<"/", "/", "c">>]>>]

EmitBlank(st) == [st EXCEPT !.ls = Append(@, st.off), !.off = @ + 1]

EmitCommentLine(st) ==
    [st EXCEPT !.ls = Append(@, st.off), !.cs = Append(@, CommentAt(st.off + 1)), !.off = @ + 5]

\* One statement: after its gap, on one line of row.width bytes or, when
\* row.two, on two lines.
EmitStmt(st, row) ==
    LET s0 == IF row.gap = "blank" THEN EmitBlank(st)
              ELSE IF row.gap = "comment" THEN EmitBlank(EmitCommentLine(st))
              ELSE st
        pos == s0.off + 1
        end == IF row.two THEN pos + 4 ELSE pos + row.width
        stmt == [kind |-> row.tpl.kind, pos |-> pos, end |-> end, tok |-> row.tpl.tok,
                 lastLhs |-> row.tpl.lastLhs, init |-> row.tpl.init, els |-> row.tpl.els,
                 cond |-> row.tpl.cond]
    IN  [s0 EXCEPT !.ls = IF row.two THEN @ \o <<s0.off, pos + 2>> ELSE Append(@, s0.off),
                   !.list = Append(@, stmt),
                   !.off = end + 1]

RECURSIVE EmitStmts(_, _, _)
EmitStmts(rows, i, st) ==
    IF i > Len(rows) THEN st ELSE EmitStmts(rows, i + 1, EmitStmt(st, rows[i]))

NoParent == [kind |-> "other", pos |-> NoPos, end |-> NoPos, lastParam |-> NoPos]

\* What precedes the opening brace: nothing, "func f() {", "func f(a T) {",
\* "func f(a T,<break>b T) {", "func f(<break>a T,<break>) {", "func(a T) {",
\* "if c {", "if c &&<break>d {", "for c {", "for c &&<break>d {".
Headers ==
    {[ls |-> <<0>>, lbrace |-> 0, parent |-> NoParent],
     [ls |-> <<0>>, lbrace |-> 9,
      parent |-> [kind |-> "FuncDecl", pos |-> 0, end |-> 8, lastParam |-> NoPos]],
     [ls |-> <<0>>, lbrace |-> 12,
      parent |-> [kind |-> "FuncDecl", pos |-> 0, end |-> 11, lastParam |-> 7]],
     [ls |-> <<0, 12>>, lbrace |-> 18,
      parent |-> [kind |-> "FuncDecl", pos |-> 0, end |-> 17, lastParam |-> 13]],
     [ls |-> <<0, 8, 14>>, lbrace |-> 16,
      parent |-> [kind |-> "FuncDecl", pos |-> 0, end |-> 15, lastParam |-> 9]],
     [ls |-> <<0>>, lbrace |-> 10,
      parent |-> [kind |-> "FuncLit", pos |-> 0, end |-> 9, lastParam |-> 5]],
     [ls |-> <<0>>, lbrace |-> 5,
      parent |-> [kind |-> "IfStmt", pos |-> 3, end |-> 4, lastParam |-> NoPos]],
     [ls |-> <<0, 8>>, lbrace |-> 11,
      parent |-> [kind |-> "IfStmt", pos |-> 3, end |-> 10, lastParam |-> NoPos]],
     [ls |-> <<0>>, lbrace |-> 6,
      parent |-> [kind |-> "ForStmt", pos |-> 4, end |-> 5, lastParam |-> NoPos]],
     [ls |-> <<0, 9>>, lbrace |-> 12,
      parent |-> [kind |-> "ForStmt", pos |-> 4, end |-> 11, lastParam |-> NoPos]]}

\* The parser's result for a block: lay is [after, lead, trail, before], an
\* empty line after the brace, a comment line before the first statement, one
\* after the last, an empty line before the closing brace.
ParseBlock(h, rows, lay, level) ==
    LET s0 == [off |-> h.lbrace + 2, ls |-> h.ls, list |-> <<>>, cs |-> <<>>]
        s1 == IF lay.after THEN EmitBlank(s0) ELSE s0
        s2 == IF lay.lead THEN EmitCommentLine(s1) ELSE s1
        s3 == EmitStmts(rows, 1, s2)
        s4 == IF lay.trail THEN EmitCommentLine(s3) ELSE s3
        s5 == IF lay.before THEN EmitBlank(s4) ELSE s4
    IN  [node |-> [kind |-> "BlockStmt", lbrace |-> h.lbrace, rbrace |-> s5.off,
                   casePos |-> NoPos, colon |-> NoPos, exprs |-> <<>>,
                   list |-> s5.list, parent |-> h.parent, level |-> level],
         ls |-> Append(s5.ls, s5.off), cs |-> s5.cs, size |-> s5.off + 2]

\* The parser's result for "case a,<break>b:" with its body: w the width of
\* b, brk whether b is on a new line, between a comment after "a,", inline a
\* comment after the clause's end.
ParseClause(kind, w, brk, between, inline, rows, level) ==
    LET bPos == IF ~brk THEN 8 ELSE IF between THEN 13 ELSE 9
        colon == bPos + w
        ls0 == IF brk THEN <<0, bPos - 1>> ELSE <<0>>
        cs0 == IF brk /\ between THEN <<CommentAt(8)>> ELSE <<>>
        late == inline /\ Len(rows) > 0
        s0 == [off |-> IF inline /\ Len(rows) = 0 THEN colon + 6 ELSE colon + 2,
               ls |-> ls0,
               list |-> <<>>,
               cs |-> IF inline /\ Len(rows) = 0 THEN Append(cs0, CommentAt(colon + 2)) ELSE cs0]
        s1 == EmitStmts(rows, 1, s0)
        s2 == IF late THEN [s1 EXCEPT !.cs = Append(@, CommentAt(s1.off)), !.off = @ + 4]
              ELSE s1
    IN  [node |-> [kind |-> kind, lbrace |-> NoPos, rbrace |-> NoPos,
                   casePos |-> 0, colon |-> colon,
                   exprs |-> <<[pos |-> 5, end |-> 6], [pos |-> bPos, end |-> colon]>>,
                   list |-> s2.list, parent |-> NoParent, level |-> level],
         ls |-> s2.ls, cs |-> s2.cs, size |-> s2.off]

\* Statement lists that exercise stmts.
GuardRows(max) ==
    LET one == {[tpl |-> tp, two |-> TRUE, gap |-> g, width |-> 1] :
                   tp \in IfTemplates, g \in Gaps}
               \cup {[tpl |-> tp, two |-> tw, gap |-> g, width |-> 1] :
                        tp \in AssignTemplates, tw \in BOOLEAN, g \in Gaps}
               \cup {[tpl |-> ExprTemplate, two |-> FALSE, gap |-> g, width |-> 1] : g \in Gaps}
    IN  {rows \in UNION {[1..n -> one] : n \in 1..max} : rows[1].gap = "none"}

StmtWidths == {5, 50, 60}

\* Statement lists of plain statements of several widths.
PlainRows(max) ==
    UNION {[1..n -> {[tpl |-> ExprTemplate, two |-> FALSE, gap |-> "none", width |-> w] :
                        w \in StmtWidths}] : n \in 0..max}

ExprWidths == 18..36

\* The parser's result f as the state the traversal starts in.
StartAt(f) ==
    /\ ast = f.node
    /\ lines = f.ls
    /\ size = f.size
    /\ comments = f.cs
    /\ orig = [node |-> f.node, lines |-> f.ls]

NoExtras == [after |-> FALSE, lead |-> FALSE, trail |-> FALSE, before |-> FALSE]

InitBlock ==
    /\ \/ \E h \in {x \in Headers : x.lbrace \in {0, 12}}, rows \in GuardRows(MaxStmts) :
             StartAt(ParseBlock(h, rows, NoExtras, 1))
       \/ \E k \in {"CaseClause", "CommClause"}, rows \in GuardRows(MaxStmts) :
             StartAt(ParseClause(k, 1, FALSE, FALSE, FALSE, rows, 2))
       \/ \E h \in Headers, rows \in PlainRows(MaxStmts), level \in 0..1,
             lay \in [after : BOOLEAN, lead : BOOLEAN, trail : BOOLEAN, before : BOOLEAN] :
             StartAt(ParseBlock(h, rows, lay, level))
       \/ \E w \in ExprWidths, c \in BOOLEAN \X BOOLEAN \X BOOLEAN, level \in 2..3,
             rows \in {r \in PlainRows(1) : \A i \in 1..Len(r) : r[i].width = 5} :
             StartAt(ParseClause("CaseClause", w, c[1], c[1] /\ c[2], c[3], rows, level))
    /\ opts = <<>>
    /\ pc = "start"
    /\ aborted = FALSE

\* The traversal enters a block.
VisitBlockStmt ==
    /\ pc = "start" /\ ast.kind = "BlockStmt"
    /\ LET t == ApplyPreBlockStmt(ast, Tab(lines, TRUE), comments)
       IN  lines' = t.lines /\ aborted' = ~t.ok
    /\ pc' = "visited"
    /\ UNCHANGED <<size, ast, comments, opts, orig>>

\* The traversal enters a case clause.
VisitCaseClause ==
    /\ pc = "start" /\ ast.kind = "CaseClause"
    /\ LET t == ApplyPreCaseClause(ast, Tab(lines, TRUE), comments)
       IN  lines' = t.lines /\ aborted' = ~t.ok
    /\ pc' = "visited"
    /\ UNCHANGED <<size, ast, comments, opts, orig>>

\* The traversal enters a comm clause.
VisitCommClause ==
    /\ pc = "start" /\ ast.kind = "CommClause"
    /\ LET t == ApplyPreCommClause(ast, Tab(lines, TRUE))
       IN  lines' = t.lines /\ aborted' = ~t.ok
    /\ pc' = "visited"
    /\ UNCHANGED <<size, ast, comments, opts, orig>>

NextBlock == VisitBlockStmt \/ VisitCaseClause \/ VisitCommClause

SpecBlock == InitBlock /\ [][NextBlock]_vars

\* The error guard as the claim words it: an if with no init clause, no else
\* branch and the condition err != nil, right after a := assignment whose
\* last target is err.
ClaimedGuard(i) ==
    LET a == orig.node.list[i - 1]
        s == orig.node.list[i]
    IN  /\ s.kind = "IfStmt" /\ ~s.init /\ ~s.els
        /\ s.cond = [kind |-> "BinaryExpr", op |-> "NEQ", x |-> "err", y |-> "nil"]
        /\ a.kind = "AssignStmt" /\ a.tok = "DEFINE" /\ a.lastLhs = "err"

\* Lines from the end of statement i-1 to the start of statement i.
GapLines(ls, i) == Line(ls, orig.node.list[i].pos) - Line(ls, orig.node.list[i - 1].end)

\* C9: in the statement list of a block, case clause or comm clause, an error
\* guard ends up on the line directly after the line its assignment ends on;
\* before any other statement, and inside every statement, no line break is
\* removed, and a list whose guards already follow their assignments directly
\* is left as it was.
C9_ErrGuardBlankLine ==
    pc = "visited" =>
        LET list == orig.node.list
        IN  /\ ~aborted
            /\ ast.list = list
            /\ \A i \in 2..Len(list) :
                  IF ClaimedGuard(i) THEN GapLines(lines, i) = 1
                  ELSE GapLines(lines, i) = GapLines(orig.lines, i)
            /\ \A i \in 1..Len(list) :
                  Line(lines, list[i].end) - Line(lines, list[i].pos)
                     = Line(orig.lines, list[i].end) - Line(orig.lines, list[i].pos)
            /\ (ast.kind = "CommClause"
                /\ \A i \in 2..Len(list) : ClaimedGuard(i) => GapLines(orig.lines, i) = 1)
                  => lines = orig.lines

\* C9 witness: in a case clause an error guard that stood after an empty line
\* now directly follows its two-line assignment.
C9_Witness ==
    /\ pc = "visited" /\ ast.kind = "CaseClause"
    /\ Len(ast.list) = 2 /\ ClaimedGuard(2)
    /\ Line(orig.lines, ast.list[1].end) > Line(orig.lines, ast.list[1].pos)
    /\ GapLines(orig.lines, 2) = 2
    /\ GapLines(lines, 2) = 1

\* A block the rule applies to: a function body or exactly one statement.
CollapsibleBlock ==
    /\ ast.kind = "BlockStmt"
    /\ ast.parent.kind \in {"FuncDecl", "FuncLit"} \/ Len(ast.list) = 1

\* The estimate of the node as parsed.
Estimate ==
    PrintLength(orig.node,
                IF orig.node.kind = "BlockStmt" THEN orig.node.rbrace + 1
                ELSE ClauseEnd(orig.node),
                orig.node.level, orig.lines, comments)

TrimmedBlock ==
    /\ ast.kind = "BlockStmt"
    /\ ast.parent.kind \in {"FuncDecl", "FuncLit"} \/ Len(ast.list) <= 1

\* First and last position of what stands between the braces.
Interior ==
    LET inside == CommentsBetween(comments, ast.lbrace, ast.rbrace)
        starts == {ast.list[i].pos : i \in 1..Len(ast.list)}
                  \cup {GroupPos(inside[i]) : i \in 1..Len(inside)}
        ends == {ast.list[i].end : i \in 1..Len(ast.list)}
                \cup {GroupEnd(inside[i]) : i \in 1..Len(inside)}
    IN  [empty |-> starts = {},
         pos |-> IF starts = {} THEN NoPos ELSE MinOf(starts),
         end |-> IF ends = {} THEN NoPos ELSE MaxOf(ends)]

\* A condition or signature on several lines, the last parameter on the
\* line of the signature's end.
MultilineLead ==
    LET p == orig.node.parent
    IN  /\ p.kind # "other"
        /\ Line(orig.lines, p.pos) # Line(orig.lines, p.end)
        /\ p.kind \in {"FuncDecl", "FuncLit"} =>
              p.lastParam # NoPos /\ Line(orig.lines, p.lastParam) = Line(orig.lines, p.end)

LongBlockTrimmed ==
    /\ pc = "visited" /\ CollapsibleBlock
    /\ Estimate > shortLineLimit
    /\ lines # orig.lines

(***************************************************************************)
(* Specification SpecComments: applyPre, *ast.File, on a file of comments  *)
(*   package p            one or two comment groups after the package      *)
(*                        clause, each comment on a line of its own, an    *)
(*   //a                  empty line before each group                     *)
(***************************************************************************)

\* Bound: the most comments of the first group.
MaxGroup == 2

BlockText == <<"/", "*", "a", "*", "/">>

\* Bodies of line comments: empty, a word, spaced, doubly spaced, a number,
\* code, the directives a:a, nolint and line, and the near-directives
\* "linea" and "a:".
Bodies ==
    {<<>>, <<"a">>, <<" ", "a">>, <<" ", " ", "a">>, <<"1">>, <<"{">>,
     <<"a", ":", "a">>, <<"nolint">>, <<"line">>, <<"line", "a">>, <<"a", ":">>}

CommentTexts == {BlockText} \cup {<<"/", "/">> \o b : b \in Bodies}

\* The comments of one group, one per line from offset off on.
RECURSIVE EmitGroup(_, _, _)
EmitGroup(texts, i, st) ==
    IF i > Len(texts) THEN st
    ELSE EmitGroup(texts, i + 1,
                   [off |-> st.off + Len(texts[i]) + 1,
                    ls |-> Append(st.ls, st.off),
                    list |-> Append(st.list, [pos |-> st.off,
                                              end |-> st.off + Len(texts[i]),
                                              text |-> texts[i]])])

\* The parser's result for the file: "package p", then the groups.
RECURSIVE EmitGroups(_, _, _)
EmitGroups(groups, i, st) ==
    IF i > Len(groups) THEN st
    ELSE LET g == EmitGroup(groups[i], 1, [off |-> st.off + 1, ls |-> Append(st.ls, st.off),
                                           list |-> <<>>])
         IN  EmitGroups(groups, i + 1,
                        [off |-> g.off, ls |-> g.ls, cs |-> Append(st.cs, [list |-> g.list])])

ParseComments(groups) == EmitGroups(groups, 1, [off |-> 10, ls |-> <<0>>, cs |-> <<>>])

CommentFiles(max) ==
    {<<g>> : g \in UNION {[1..n -> CommentTexts] : n \in 1..max}}
    \cup {<<g, <<t>>>> : g \in UNION {[1..n -> CommentTexts] : n \in 1..max}, t \in CommentTexts}

InitComments ==
    /\ \E groups \in CommentFiles(MaxGroup) :
          \E f \in {ParseComments(groups)} :
             /\ comments = f.cs
             /\ lines = f.ls
             /\ size = f.off
             /\ orig = [comments |-> f.cs, lines |-> f.ls]
    /\ ast = <<>>
    /\ opts = <<>>
    /\ pc = "start"
    /\ aborted = FALSE

\* The traversal enters the file, which has no declarations.
VisitFileComments ==
    /\ pc = "start"
    /\ \E r \in {ApplyPreFile(ast, lines, size, comments)} :
          /\ ast' = r[1]
          /\ lines' = r[2].lines
          /\ aborted' = ~r[2].ok
          /\ comments' = r[3]
    /\ pc' = "visited"
    /\ UNCHANGED <<size, opts, orig>>

NextComments == VisitFileComments

SpecComments == InitComments /\ [][NextComments]_vars

IsLineComment(text) == Len(text) >= 2 /\ text[1] = "/" /\ text[2] = "/"

\* A comment the claim leaves alone: a block comment, a directive, or code.
KeptAsIs(text) ==
    \/ ~IsLineComment(text)
    \/ RxCommentDirective(SubSeq(text, 3, Len(text)))
    \/ Len(text) = 2
    \/ text[3] \notin Letters \cup Digits \cup Spaces

OneSpaceAfterMarker(text) ==
    /\ Len(text) >= 3 /\ text[3] = " "
    /\ Len(text) >= 4 => text[4] # " "

\* C11 as stated: every line comment that is neither a directive nor code has
\* exactly one space after the marker, whatever else is in its group; block
\* comments, directives and code keep their text.
C11_CommentSpacing ==
    pc = "visited" =>
        \A i \in 1..Len(comments) : \A k \in 1..Len(comments[i].list) :
            LET before == orig.comments[i].list[k].text
                after == comments[i].list[k].text
            IN  IF KeptAsIs(before) THEN after = before
                ELSE OneSpaceAfterMarker(after)

\* C11, amended: a group in which some comment is a block comment, a
\* directive or code keeps every text; in any other group a comment whose
\* marker is followed by a space keeps its text and any other gets one space
\* put after the marker.
C11_CommentSpacingByGroup ==
    pc = "visited" =>
        /\ Len(comments) = Len(orig.comments)
        /\ \A i \in 1..Len(comments) :
              LET old == orig.comments[i].list
                  new == comments[i].list
              IN  /\ Len(new) = Len(old)
                  /\ \A k \in 1..Len(old) :
                        IF \E j \in 1..Len(old) : KeptAsIs(old[j].text)
                        THEN new[k].text = old[k].text
                        ELSE IF old[k].text[3] = " " THEN new[k].text = old[k].text
                        ELSE new[k].text = <<"/", "/", " ">> \o SubSeq(old[k].text, 3, Len(old[k].text))

\* C11 witness: of two groups, the first keeps "//a" next to a directive, the
\* second has had its "//a" spaced.
C11_Witness ==
    /\ pc = "visited"
    /\ Len(comments) = 2
    /\ Len(comments[1].list) = 2
    /\ comments[1].list[1].text = <<"/", "/", "a", ":", "a">>
    /\ comments[1].list[2].text = <<"/", "/", "a">>
    /\ orig.comments[2].list[1].text = <<"/", "/", "a">>
    /\ comments[2].list[1].text = <<"/", "/", " ", "a">>

(***************************************************************************)
(* The separation of multiline declarations, on SpecFile                   *)
(***************************************************************************)

\* The lines a declaration spans, from its keyword to its last byte.
FirstLineOf(d, ls) == Line(ls, d.tokPos)

LastLineOf(d, ls) ==
    IF d.kind = "func" THEN Line(ls, d.funcEnd - 1)
    ELSE MaxOf({Line(ls, d.specs[k].end - 1) : k \in 1..Len(d.specs)}
               \cup (IF d.lparen # NoPos THEN {Line(ls, d.rparen)} ELSE {}))

SpansLines(d, ls) == FirstLineOf(d, ls) < LastLineOf(d, ls)

\* The offset of the last byte of a declaration.
LastByteOf(d) ==
    IF d.kind = "func" THEN d.funcEnd - 1
    ELSE MaxOf({d.specs[k].end - 1 : k \in 1..Len(d.specs)}
               \cup (IF d.lparen # NoPos THEN {d.rparen} ELSE {}))

\* The line starts after the last byte of d1 up to the keyword of d2.
BreaksBetween(d1, d2, ls) ==
    {k \in 1..Len(ls) : LastByteOf(d1) < ls[k] /\ ls[k] <= d2.tokPos}

\* C12: right after the rule, for two adjacent declarations, a line break
\* has been inserted between them exactly when both span more than one line
\* and the second begins on the line after the one the first ends on;
\* comments before either change nothing.
C12_BlankBetweenMultiline ==
    (pc.run = 1 /\ pc.next = 1 /\ ~aborted) =>
        \A i \in 1..(Len(ast) - 1) :
            LET d1 == ast[i]
                d2 == ast[i + 1]
                old == orig.input.lines
            IN  (Cardinality(BreaksBetween(d1, d2, lines))
                    > Cardinality(BreaksBetween(d1, d2, old)))
                <=> (/\ SpansLines(d1, old) /\ SpansLines(d2, old)
                     /\ FirstLineOf(d2, old) = LastLineOf(d1, old) + 1)

\* C12 on files without comments: a line break has been inserted between
\* two adjacent declarations exactly when both span more than one line and
\* the second begins on the line after the one the first ends on.
C12_WithoutComments == comments = <<>> => C12_BlankBetweenMultiline

\* The same on files without comments in which nothing was joined (holds).
C12_WithoutCommentsOrJoin ==
    (comments = <<>> /\ Len(ast) = Len(orig.input.decls)) => C12_BlankBetweenMultiline

(***************************************************************************)
(* The walk of astutil.Apply and the long-line rule: File's pre and post   *)
(* callbacks and fumpter.splitLongLine                                     *)
(* A node is [kind, pos, end, kids], a kid [name, index, node]: the field  *)
(* of its parent it sits in and its index there, -1 outside a list.  A     *)
(* cursor is [node, parent, name, index], the parent [kind, pos, end,      *)
(* lastParam]; for a function declaration pos and end are those of its     *)
(* signature.                                                              *)
(***************************************************************************)

longLineLimit == 100

\* fumpter.minSplitFactor, in tenths.
DefaultSplitFactor == 4
ParamsSplitFactor == 6
ResultsSplitFactor == 10000

NoNode == [kind |-> "nil", pos |-> NoPos, end |-> NoPos, kids |-> <<>>]

\* The nodes of the field of that name, in order.
KidsNamed(node, name) ==
    LET idx == {i \in 1..Len(node.kids) : node.kids[i].name = name}
    IN  [k \in 1..Cardinality(idx) |-> node.kids[SortedSeq(idx)[k]].node]

KidNamed(node, name) ==
    IF KidsNamed(node, name) = <<>> THEN NoNode ELSE KidsNamed(node, name)[1]

\* sign.Results' last field, else sign.Params' (format.go lines 488-493).
LastParam(sign) ==
    LET res == KidNamed(sign, "Results")
        par == KidNamed(sign, "Params")
    IN  IF res # NoNode /\ Len(res.kids) > 0 THEN res.kids[Len(res.kids)].node.pos
        ELSE IF par # NoNode /\ Len(par.kids) > 0 THEN par.kids[Len(par.kids)].node.pos
        ELSE NoPos

\* What the rules read of c.Parent().
ParentOf(node) ==
    IF node.kind \in {"FuncDecl", "FuncLit"}
    THEN LET sign == KidNamed(node, "Type")
         IN  [kind |-> node.kind, pos |-> sign.pos, end |-> sign.end,
              lastParam |-> LastParam(sign)]
    ELSE [kind |-> node.kind, pos |-> node.pos, end |-> node.end, lastParam |-> NoPos]

NoParentNode == [kind |-> "nil", pos |-> NoPos, end |-> NoPos, lastParam |-> NoPos]

\* astutil.Apply: the visits of the subtree of a node, pre-order visit,
\* children in field order, post-order visit.
RECURSIVE Walk(_, _, _, _)
RECURSIVE WalkKids(_, _)
Walk(node, parent, name, index) ==
    LET c == [node |-> node, parent |-> parent, name |-> name, index |-> index]
    IN  <<[phase |-> "pre", c |-> c]>> \o WalkKids(node, 1)
        \o <<[phase |-> "post", c |-> c]>>

WalkKids(node, i) ==
    IF i > Len(node.kids) THEN <<>>
    ELSE Walk(node.kids[i].node, ParentOf(node), node.kids[i].name, node.kids[i].index)
         \o WalkKids(node, i + 1)

\* astutil.Apply(file, pre, post): the visits in order.
Visits(file) == Walk(file, NoParentNode, "Node", -1)

\* token.File.Position(p).Column.
Column(ls, p) == p - LineStart(ls, Line(ls, p)) + 1

\* fumpter.lineEnd(line): <<position, no panic>>.
LineEnd(ls, line, fileEnd) ==
    IF line < 1 \/ line > LineCount(ls) THEN <<NoPos, FALSE>>
    ELSE IF line = LineCount(ls) THEN <<fileEnd, TRUE>>
    ELSE <<LineStart(ls, line + 1) - 1, TRUE>>

\* isComposite(node).
RECURSIVE IsComposite(_)
IsComposite(node) ==
    IF node.kind = "CompositeLit" THEN node
    ELSE IF node.kind = "UnaryExpr" THEN IsComposite(KidNamed(node, "X"))
    ELSE NoNode

\* splitLongLine, lines 654-660: the node is part of a list.
InList(c) == c.parent.kind = "BinaryExpr" \/ c.index >= 0

\* splitLongLine, lines 683-686: what a call with arguments adds to startCol.
CallNudge(node, ls) ==
    IF node.kind = "CallExpr" /\ KidsNamed(node, "Args") # <<>>
    THEN (Column(ls, KidsNamed(node, "Args")[1].pos) - Column(ls, node.pos)) \div 2
    ELSE 0

\* splitLongLine, lines 665-686: startCol.
StartCol(node, ls, level) == Column(ls, node.pos) + level * 7 + CallNudge(node, ls)

\* splitLongLine, line 666: endCol.
EndCol(node, ls, level) == Column(ls, node.end) + level * 7

\* splitLongLine, lines 644, 673-675: newlinePos.
NewlinePos(node) ==
    LET comp == IsComposite(node)
    IN  IF comp # NoNode /\ KidsNamed(comp, "Elts") # <<>>
        THEN KidsNamed(comp, "Elts")[1].pos
        ELSE node.pos

\* splitLongLine, line 709: int(f.minSplitFactor * longLineLimit).
MinSplitLength(factor) == (factor * longLineLimit) \div 10

\* fumpter.splitLongLine(c): the table after it; on is the environment's
\* GOFUMPT_SPLIT_LONG_LINES=on, fileEnd f.astFile.End().
SplitLongLine(c, t, sz, level, factor, on, fileEnd) ==
    IF ~on \/ ~t.ok THEN t
    ELSE LET node == c.node
             ls == t.lines
             startLine == Line(ls, node.pos)
             lineEnd == LineEnd(ls, startLine, fileEnd)
             firstLength == Column(ls, node.pos) - level
             secondLength == Column(ls, lineEnd[1]) - Column(ls, node.pos)
             minSplitLength == MinSplitLength(factor)
         IN  IF startLine # Line(ls, node.end) THEN t
             ELSE IF ~InList(c) THEN t
             ELSE IF StartCol(node, ls, level) <= shortLineLimit THEN t
             ELSE IF ~lineEnd[2] \/ firstLength < 0 \/ secondLength < 0
             THEN Tab(ls, FALSE)
             ELSE IF /\ EndCol(node, ls, level) > longLineLimit
                     /\ firstLength >= minSplitLength
                     /\ secondLength >= minSplitLength
             THEN AddNewline(t, sz, NewlinePos(node))
             ELSE t

\* The field list as applyPre's *ast.FieldList case reads it.
AsFieldList(node) ==
    [opening |-> node.pos, closing |-> node.end - 1,
     list |-> [i \in 1..Len(node.kids) |->
                 [names |-> KidsNamed(node.kids[i].node, "Names"),
                  type |-> KidNamed(node.kids[i].node, "Type")]]]

\* The block as applyPre's *ast.BlockStmt case reads it.
AsBlockStmt(c) ==
    [kind |-> "BlockStmt", lbrace |-> c.node.pos, rbrace |-> c.node.end - 1,
     list |-> KidsNamed(c.node, "List"), parent |-> c.parent]

\* The literal as applyPost's *ast.CompositeLit case reads it.
AsCompositeLit(node) ==
    [lbrace |-> KidNamed(node, "Type").end, rbrace |-> node.end - 1,
     elts |-> [i \in 1..Len(KidsNamed(node, "Elts")) |->
                  LET e == KidsNamed(node, "Elts")[i]
                  IN  [kind |-> IF e.kind = "CompositeLit" THEN "comp" ELSE "lit",
                       pos |-> e.pos, end |-> e.end]]]

\* The declarations as applyPre's *ast.File case reads them.
AsDecls(file) ==
    [i \in 1..Len(KidsNamed(file, "Decls")) |->
        LET d == KidsNamed(file, "Decls")[i]
        IN  [id |-> i, kind |-> "func", tok |-> "func", doc |-> FALSE, tokPos |-> d.pos,
             lparen |-> NoPos, rparen |-> NoPos, specs |-> <<>>, funcEnd |-> d.end]]

\* applyPre after its call of splitLongLine, on the kinds of node of a
\* function declaration: the table after the rule of the node's kind.
ApplyPreRules(c, t, sz, cs, extraRules) ==
    IF ~t.ok THEN t
    ELSE CASE c.node.kind = "File" -> ApplyPreFile(AsDecls(c.node), t.lines, sz, cs)[2]
           [] c.node.kind = "BlockStmt" -> ApplyPreBlockStmt(AsBlockStmt(c), t, cs)
           [] c.node.kind = "FieldList" ->
                 ApplyPreFieldList(AsFieldList(c.node), c.parent.kind, extraRules, t, cs)[2]
           [] OTHER -> t

\* applyPost: the table after it.
ApplyPostRules(c, t, sz) ==
    IF c.node.kind = "CompositeLit" THEN ApplyPostCompositeLit(AsCompositeLit(c.node), t, sz)
    ELSE t

\* A slip the pre callback could have: the parameter list left at the
\* default factor.
PreContextNoParams(c, ctx) ==
    CASE c.node.kind = "FuncDecl" ->
            [ctx EXCEPT !.topFuncType = KidNamed(c.node, "Type").pos]
      [] c.node.kind = "FieldList" ->
            IF c.parent.kind # "FuncType" \/ c.parent.pos # ctx.topFuncType THEN ctx
            ELSE [ctx EXCEPT !.minSplitFactor =
                     IF c.name = "Results" THEN ResultsSplitFactor ELSE @]
      [] c.node.kind = "BlockStmt" -> [ctx EXCEPT !.blockLevel = @ + 1]
      [] OTHER -> ctx

\* File, the pre callback after applyPre (lines 88-118): the context
\* [blockLevel, minSplitFactor, topFuncType] after it; a FuncType is known
\* by its position.
PreContext(c, ctx) ==
    CASE c.node.kind = "FuncDecl" ->
            [ctx EXCEPT !.topFuncType = KidNamed(c.node, "Type").pos]
      [] c.node.kind = "FieldList" ->
            IF c.parent.kind # "FuncType" \/ c.parent.pos # ctx.topFuncType THEN ctx
            ELSE [ctx EXCEPT !.minSplitFactor =
                     IF c.name = "Results" THEN ResultsSplitFactor
                     ELSE IF c.name = "Params" THEN ParamsSplitFactor
                     ELSE @]
      [] c.node.kind = "BlockStmt" -> [ctx EXCEPT !.blockLevel = @ + 1]
      [] OTHER -> ctx

\* File, the post callback after applyPost (lines 125-132).
PostContext(c, ctx) ==
    CASE c.node.kind = "FuncType" ->
            IF c.node.pos = ctx.topFuncType
            THEN [ctx EXCEPT !.minSplitFactor = DefaultSplitFactor]
            ELSE ctx
      [] c.node.kind = "BlockStmt" -> [ctx EXCEPT !.blockLevel = @ - 1]
      [] OTHER -> ctx

(***************************************************************************)
(* Specification SpecSplit: the walk over a file of one function           *)
(*   package p                                                             *)
(*   func NAME(a T, b T) (r T) {        or "{}" for an empty body          *)
(*   <tab>{                             nested blocks, one tab deeper each *)
(*   <tab><tab>FUN(arg, arg)                                               *)
(*   <tab>}                                                                *)
(*   }                                                                     *)
(* as gofmt prints it.  Names, types and arguments are identifiers of a    *)
(* chosen width; an argument is an identifier, a call "G(u)", a binary     *)
(* expression "x + y", a literal "T{e}" or its address "&T{e}".            *)
(***************************************************************************)

\* Bounds: the most nested blocks and the most parameters.
MaxDepth == 3
MaxParams == 2

Kid(name, index, node) == [name |-> name, index |-> index, node |-> node]

Ident(p, w) == [kind |-> "Ident", pos |-> p, end |-> p + w, kids |-> <<>>]

\* "a T": a one-byte name and a type of width tw.
FieldAt(p, tw) ==
    [kind |-> "Field", pos |-> p, end |-> p + 2 + tw,
     kids |-> <<Kid("Names", 0, Ident(p, 1)), Kid("Type", -1, Ident(p + 2, tw))>>]

\* "(a T, b T)" with its "(" at lparen, tws the widths of the types.
FieldListAt(lparen, tws) ==
    LET at(i) == lparen + 1 + SeqSum([j \in 1..(i - 1) |-> tws[j] + 4])
        kids == [i \in 1..Len(tws) |-> Kid("List", i - 1, FieldAt(at(i), tws[i]))]
        closing == IF tws = <<>> THEN lparen + 1 ELSE kids[Len(tws)].node.end
    IN  [kind |-> "FieldList", pos |-> lparen, end |-> closing + 1, kids |-> kids]

\* "T{e}".
CompositeLitAt(p, w1, w2) ==
    [kind |-> "CompositeLit", pos |-> p, end |-> p + w1 + w2 + 2,
     kids |-> <<Kid("Type", -1, Ident(p, w1)), Kid("Elts", 0, Ident(p + w1 + 1, w2))>>]

\* An argument [shape, w1, w2] at p.
ArgAt(p, a) ==
    CASE a.shape = "id" -> Ident(p, a.w1)
      [] a.shape = "call" ->
            [kind |-> "CallExpr", pos |-> p, end |-> p + a.w1 + a.w2 + 2,
             kids |-> <<Kid("Fun", -1, Ident(p, a.w1)),
                        Kid("Args", 0, Ident(p + a.w1 + 1, a.w2))>>]
      [] a.shape = "bin" ->
            [kind |-> "BinaryExpr", pos |-> p, end |-> p + a.w1 + 3 + a.w2,
             kids |-> <<Kid("X", -1, Ident(p, a.w1)),
                        Kid("Y", -1, Ident(p + a.w1 + 3, a.w2))>>]
      [] a.shape = "comp" -> CompositeLitAt(p, a.w1, a.w2)
      [] a.shape = "addr" ->
            [kind |-> "UnaryExpr", pos |-> p, end |-> p + 1 + a.w1 + a.w2 + 2,
             kids |-> <<Kid("X", -1, CompositeLitAt(p + 1, a.w1, a.w2))>>]

\* The arguments from index i on, the first of them at p.
RECURSIVE ArgsAt(_, _, _)
ArgsAt(p, args, i) ==
    IF i > Len(args) THEN <<>>
    ELSE LET n == ArgAt(p, args[i])
         IN  <<Kid("Args", i - 1, n)>> \o ArgsAt(n.end + 2, args, i + 1)

\* The statement "FUN(args)" at p.
CallStmtAt(p, fw, args) ==
    LET kids == ArgsAt(p + fw + 1, args, 1)
        rparen == IF kids = <<>> THEN p + fw + 1 ELSE kids[Len(kids)].node.end
        call == [kind |-> "CallExpr", pos |-> p, end |-> rparen + 1,
                 kids |-> <<Kid("Fun", -1, Ident(p, fw))>> \o kids]
    IN  [kind |-> "ExprStmt", pos |-> p, end |-> call.end, kids |-> <<Kid("X", -1, call)>>]

\* The block whose "{" is at lbrace and whose statements are level tabs in:
\* <<node, the line starts inside it>>.
RECURSIVE BlockAt(_, _, _, _, _)
BlockAt(lbrace, level, depth, fw, args) ==
    LET start == lbrace + 2
        inner == IF level < depth
                 THEN BlockAt(start + level, level + 1, depth, fw, args)
                 ELSE <<CallStmtAt(start + level, fw, args), <<>>>>
        last == inner[1].end + 1
        rbrace == last + (level - 1)
    IN  <<[kind |-> "BlockStmt", pos |-> lbrace, end |-> rbrace + 1,
           kids |-> <<Kid("List", 0, inner[1])>>],
          <<start>> \o inner[2] \o <<last>>>>

\* The parser's result for the file of a row [name, params, results, depth,
\* fun, args]: widths, and the nesting of the body, 0 for "{}".
ParseFuncFile(row) ==
    LET params == FieldListAt(15 + row.name, row.params)
        results == FieldListAt(params.end + 1, row.results)
        sigEnd == IF row.results = <<>> THEN params.end ELSE results.end
        sign == [kind |-> "FuncType", pos |-> 10, end |-> sigEnd,
                 kids |-> <<Kid("Params", -1, params)>>
                          \o (IF row.results = <<>> THEN <<>>
                              ELSE <<Kid("Results", -1, results)>>)]
        body == IF row.depth = 0
                THEN <<[kind |-> "BlockStmt", pos |-> sigEnd + 1, end |-> sigEnd + 3,
                        kids |-> <<>>], <<>>>>
                ELSE BlockAt(sigEnd + 1, 1, row.depth, row.fun, row.args)
        decl == [kind |-> "FuncDecl", pos |-> 10, end |-> body[1].end,
                 kids |-> <<Kid("Name", -1, Ident(15, row.name)),
                            Kid("Type", -1, sign), Kid("Body", -1, body[1])>>]
    IN  [file |-> [kind |-> "File", pos |-> 0, end |-> decl.end,
                   kids |-> <<Kid("Name", -1, Ident(8, 1)), Kid("Decls", 0, decl)>>],
         ls |-> <<0, 10>> \o body[2],
         size |-> decl.end + 1]

\* Widths that put columns on both sides of the two limits.
NameWidths == {53, 54}
TypeWidths == {1, 37, 38}
ResultWidths == {1, 60}
FunWidths == {37, 38, 50, 51}

FirstArgs ==
    {[shape |-> "id", w1 |-> w, w2 |-> 0] : w \in {1, 39, 40}}
    \cup {[shape |-> "call", w1 |-> g, w2 |-> u] : g \in {1, 11}, u \in {1, 40}}

SecondArgs ==
    {[shape |-> "bin", w1 |-> 1, w2 |-> 40], [shape |-> "bin", w1 |-> 40, w2 |-> 1],
     [shape |-> "comp", w1 |-> 1, w2 |-> 40], [shape |-> "addr", w1 |-> 1, w2 |-> 40]}

\* Long signatures over an empty body.
SignatureRows(max) ==
    {[name |-> n, params |-> ps, results |-> rs, depth |-> 0, fun |-> 0, args |-> <<>>] :
        n \in NameWidths,
        ps \in UNION {[1..k -> TypeWidths] : k \in 0..max},
        rs \in {<<>>} \cup {<<w>> : w \in ResultWidths}}

\* Long calls in a nest of blocks.
BodyRows(max) ==
    {[name |-> 1, params |-> <<>>, results |-> <<>>, depth |-> d, fun |-> fw, args |-> as] :
        d \in 1..max, fw \in FunWidths,
        as \in {<<a>> : a \in FirstArgs} \cup {<<a, b>> : a \in FirstArgs, b \in SecondArgs}}

\* fumpter's context as File sets it up (lines 77-85).
NewContext == [next |-> 1, blockLevel |-> 0, minSplitFactor |-> DefaultSplitFactor,
               topFuncType |-> NoPos]

InitSplit ==
    /\ \E on \in BOOLEAN :
          opts = [splitLongLines |-> on, extraRules |-> FALSE]
    /\ \E row \in SignatureRows(MaxParams) \cup BodyRows(MaxDepth) :
          \E f \in {ParseFuncFile(row)} :
             /\ ast = f.file
             /\ lines = f.ls
             /\ size = f.size
             /\ orig = [lines |-> f.ls]
    /\ comments = <<>>
    /\ pc = NewContext
    /\ aborted = FALSE

\* The pre-order visit of the next node: applyPre, which begins with
\* splitLongLine, then the pre callback's context.
VisitPre ==
    /\ ~aborted
    /\ \E w \in {Visits(ast)} :
          /\ pc.next <= Len(w)
          /\ w[pc.next].phase = "pre"
          /\ LET c == w[pc.next].c
                 t1 == SplitLongLine(c, Tab(lines, TRUE), size, pc.blockLevel,
                                     pc.minSplitFactor, opts.splitLongLines, ast.end)
                 t2 == ApplyPreRules(c, t1, size, comments, opts.extraRules)
             IN  /\ lines' = t2.lines
                 /\ aborted' = ~t2.ok
                 /\ pc' = [PreContext(c, pc) EXCEPT !.next = pc.next + 1]
    /\ UNCHANGED <<size, ast, comments, opts, orig>>

\* The post-order visit of the next node: applyPost, then the post
\* callback's context.
VisitPost ==
    /\ ~aborted
    /\ \E w \in {Visits(ast)} :
          /\ pc.next <= Len(w)
          /\ w[pc.next].phase = "post"
          /\ LET c == w[pc.next].c
                 t1 == ApplyPostRules(c, Tab(lines, TRUE), size)
             IN  /\ lines' = t1.lines
                 /\ aborted' = ~t1.ok
                 /\ pc' = [PostContext(c, pc) EXCEPT !.next = pc.next + 1]
    /\ UNCHANGED <<size, ast, comments, opts, orig>>

NextSplit == VisitPre \/ VisitPost

SpecSplit == InitSplit /\ [][NextSplit]_vars

\* The visits of the walk over the file.
W == Visits(ast)

\* The post-order visit of the node visited pre-order at j.
PostOf(w, j) == MinOf({k \in (j + 1)..Len(w) : w[k].phase = "post" /\ w[k].c = w[j].c})

\* The pre-order visits of the nodes the node visited at i lies inside.
Enclosing(w, i) == {j \in 1..(i - 1) : w[j].phase = "pre" /\ PostOf(w, j) > i}

\* The blocks around the node visited at i.
NestingLevel(w, i) ==
    Cardinality({j \in Enclosing(w, i) : w[j].c.node.kind = "BlockStmt"})

\* The node visited at i lies inside the parameter list (name "Params") or
\* the result list ("Results") of the signature of a function declaration.
InsideSignatureList(w, i, name) ==
    \E j \in Enclosing(w, i) : \E k \in Enclosing(w, j) :
        /\ w[j].c.node.kind = "FieldList" /\ w[j].c.name = name
        /\ w[k].c.node.kind = "FuncType" /\ w[k].c.parent.kind = "FuncDecl"
        /\ PostOf(w, k) > PostOf(w, j)
        /\ w[j].c.parent.kind = "FuncType" /\ w[j].c.parent.pos = w[k].c.node.pos

\* floor(minSplitFactor x 100) where the node visited at i lies.
ClaimedMinLength(w, i) ==
    IF InsideSignatureList(w, i, "Params") THEN 60
    ELSE IF InsideSignatureList(w, i, "Results") THEN 100000
    ELSE 40

\* The column of the end of a line: of the file's end on the last line, of
\* the newline byte on the others.
LineEndColumn(ls, line) ==
    (IF line = Len(ls) THEN ast.end ELSE ls[line + 1] - 1) - ls[line] + 1

\* For a call with arguments, half the columns from its start to its first
\* argument.
HalfwayToFirstArg(node, ls) ==
    IF node.kind = "CallExpr" /\ \E k \in 1..Len(node.kids) : node.kids[k].name = "Args"
    THEN LET first == CHOOSE k \in 1..Len(node.kids) :
                         node.kids[k].name = "Args" /\ node.kids[k].index = 0
         IN  (node.kids[first].node.pos - node.pos) \div 2
    ELSE 0

\* A pre-order visit inserts a line break.
BreakInserted ==
    /\ pc.next <= Len(W) /\ W[pc.next].phase = "pre"
    /\ Range(lines') \ Range(lines) # {}

\* The conditions of a split at the node about to be visited; nudged: the
\* start column counts the way to a call's first argument.
SplitConditions(nudged) ==
    LET c == W[pc.next].c
        node == c.node
        level == NestingLevel(W, pc.next)
        col == node.pos - lines[Line(lines, node.pos)] + 1
        endCol == node.end - lines[Line(lines, node.end)] + 1
        first == col - level
        second == LineEndColumn(lines, Line(lines, node.pos)) - col
        min == ClaimedMinLength(W, pc.next)
    IN  /\ opts.splitLongLines
        /\ Line(lines, node.pos) = Line(lines, node.end)
        /\ (c.index >= 0 \/ c.parent.kind = "BinaryExpr")
        /\ col + 7 * level + (IF nudged THEN HalfwayToFirstArg(node, lines) ELSE 0) > 60
        /\ endCol + 7 * level > 100
        /\ first >= min /\ second >= min

\* C13: a line break is inserted at a visit only if the toggle is on, the
\* node is single-line and a list element or an operand of a binary
\* expression, its column plus 7 per nesting level exceeds 60, its end
\* column plus 7 per level exceeds 100, and both halves are at least
\* floor(minSplitFactor x 100), the factor 0.6 in a top-level parameter
\* list, 1000 in a result list and 0.4 elsewhere.
C13_SplitDecision == [][BreakInserted => SplitConditions(FALSE)]_vars

\* C13 with the start column as the code adjusts it: for a call with
\* arguments, half the distance to its first argument is added before the
\* comparison with 60.
C13_SplitDecisionWithCallNudge == [][BreakInserted => SplitConditions(TRUE)]_vars

\* C13's consequences: no break inside a top-level result list, none before
\* a node whose adjusted end column is at most 100, none with the toggle off.
C13_NeverSplit ==
    [][(/\ pc.next <= Len(W)
        /\ \/ ~opts.splitLongLines
           \/ InsideSignatureList(W, pc.next, "Results")
           \/ /\ W[pc.next].phase = "pre"
              /\ EndCol(W[pc.next].c.node, lines, NestingLevel(W, pc.next)) <= 100)
       => lines' = lines]_vars

\* C13 witness: the walk is over, and a break stands before an argument that
\* is itself a call and started at an adjusted column of at most 60.
C13_Witness ==
    /\ opts.splitLongLines /\ ~aborted /\ pc.next > Len(W)
    /\ \E i \in 1..Len(W) :
          LET c == W[i].c
          IN  /\ W[i].phase = "pre" /\ c.node.kind = "CallExpr" /\ c.index >= 0
              /\ c.node.pos \in Range(lines) \ Range(orig.lines)
              /\ (c.node.pos - orig.lines[Line(orig.lines, c.node.pos)] + 1)
                    + 7 * NestingLevel(W, i) <= 60

\* A break stands inside a parameter list.
SplitInParams ==
    \E i \in 1..Len(W) :
        /\ W[i].phase = "pre" /\ W[i].c.node.kind = "Field"
        /\ InsideSignatureList(W, i, "Params")
        /\ W[i].c.node.pos \in Range(lines) \ Range(orig.lines)

\* A break stands inside a composite literal.
SplitInLiteral ==
    \E i \in 1..Len(W) :
        /\ W[i].phase = "pre" /\ W[i].c.name = "Elts"
        /\ W[i].c.node.pos \in Range(lines) \ Range(orig.lines)

\* The context the callbacks keep is the one the walk's structure gives.
ContextFollowsWalk ==
    (pc.next <= Len(W) /\ ~aborted) =>
        /\ pc.blockLevel = NestingLevel(W, pc.next)
                           + (IF W[pc.next].phase = "post"
                                 /\ W[pc.next].c.node.kind = "BlockStmt" THEN 1 ELSE 0)

(***************************************************************************)
(* The lines of the braces after the composite literal rule, on            *)
(* SpecComposite                                                           *)
(***************************************************************************)

\* A line break stands between the opening brace and the first element.
BreakAfterLbrace(node, ls) == Line(ls, node.lbrace) < Line(ls, node.elts[1].pos)

\* A line break stands between the last element and the closing brace.
BreakBeforeRbrace(node, ls) ==
    Line(ls, node.elts[Len(node.elts)].end - 1) < Line(ls, node.rbrace)

\* The closing brace's line as the rule read it at line 569 is still its
\* line when lines 591 and 603 compare it: nothing was removed in between.
CloseLineCurrent ==
    LET node == orig.node
        s == ScanElts(node.elts, 1, Line(orig.lines, node.lbrace),
                      [t |-> Tab(orig.lines, TRUE), lastLine |-> Line(orig.lines, node.lbrace),
                       around |-> FALSE, between |-> FALSE])
    IN  Line(s.t.lines, node.rbrace) = Line(orig.lines, node.rbrace)

\* C14: once the rule has run on a literal with elements, a line break
\* after the opening brace comes with a line break before the closing brace.
C14_BracesBreakTogether ==
    (pc = "post" /\ ~aborted /\ Len(ast.elts) > 0 /\ BreakAfterLbrace(ast, lines))
        => BreakBeforeRbrace(ast, lines)

\* C14, the line numbers: the closing brace's line the rule compares after
\* its scan of the elements is the line the brace then has.
C14_NoStaleCloseLine ==
    (pc = "start" /\ Len(ast.elts) > 0
        /\ Line(lines, ast.lbrace) # Line(lines, ast.rbrace)) => CloseLineCurrent

\* The same where the first element follows the opening brace without an
\* empty line (holds).
C14_WithoutLeadingEmptyLines ==
    (Line(orig.lines, orig.node.lbrace) + 1 >= Line(orig.lines, orig.node.elts[1].pos))
        => C14_BracesBreakTogether
====
